---- MODULE Spec2Model ----
(***************************************************************************)
(* A model of esp-idf-ableton-link: the safe Rust layer (Link, AudioLink,  *)
(* SessionState, the callback trampoline) over the abl_link engine.        *)
(*                                                                         *)
(* The engine is an external collaborator.  What the model says about it   *)
(* is what the wrapper's code and comments rely on: it calls a registered  *)
(* trampoline from its own threads, abl_link_destroy returns only when no  *)
(* callback is in flight, and commit replaces the session state.           *)
(*                                                                         *)
(* Two specifications share the variables:                                 *)
(*   Spec    Link lifecycle, the &self / &mut self access discipline, the  *)
(*           AudioLink token, capture / commit, SessionState lifecycle;    *)
(*   SpecCb  Link lifecycle, the three callback slots, the trampoline.     *)
(***************************************************************************)
EXTENDS Integers, Sequences, FiniteSets, TLC

\* ---------------------------------------------------------------- bounds
NumAppThreads == 2
NumRegistrars == 1
NumEngineThreads == 2
MaxSnapshots == 2
InstantBits == 6
MaxBeat == 600

MaxMoves == 2

AppThreads == 1..NumAppThreads
\* The application threads that call set_*_callback / clear_*_callback.
Registrars == {t \in AppThreads : t <= NumRegistrars}
EngineThreads == 1..NumEngineThreads
\* Identities of two distinguishable user closures (an earlier and a later
\* registration); 0 stands for Option::None in a slot.
CallbackIds == {1, 2}
\* Identities of native session states; 0 stands for "no snapshot".
SnapIds == 1..MaxSnapshots

\* The three fields of Link that hold callbacks.
Slots == {"num_peers_callback", "tempo_callback", "start_stop_callback"}

Tempos == {120, 140}

VARIABLES
    link,            \* "none" | "failed" | "alive" | "dropping" | "dropped"
    dropPos,         \* position in DropSteps while link = "dropping"
    engineState,     \* "none" | "alive" | "destroyed"   (the abl_link instance)
    destroyCount,    \* number of abl_link_destroy calls issued
    useAfterDestroy, \* an engine call was issued on a destroyed or absent instance
    storage,         \* "none" | "valid" | "freed"       (the three Mutex fields)
    slot,            \* Slots -> 0 | CallbackIds         (Option<Box<dyn FnMut>>)
    mutex,           \* Slots -> 0 | EngineThreads       (holder of the Mutex, 0 = free)
    poisoned,        \* Slots -> BOOLEAN                 (Mutex poison flag)
    registered,      \* Slots -> BOOLEAN                 (engine holds trampoline + context)
    requested,       \* Slots -> 0 | CallbackIds         (argument of the latest set / clear
                     \*                                   that took the lock: Some(cb) or None)
    epc,             \* EngineThreads -> [pc, slot, cb]  (position inside trampoline)
    process,         \* "running" | "aborted"
    pc,              \* AppThreads -> [op, slot, snap]   (call in progress)
    inEngine,        \* AppThreads -> engine entry point being executed, or "none"
    tokens,          \* set of threads holding a live AudioLink
    enabled,         \* engine: abl_link_enable flag
    startStopSync,   \* engine: abl_link_enable_start_stop_sync flag
    session,         \* engine: the session state (a timeline)
    snaps,           \* SnapIds -> native session state and its SessionState wrapper
    errReturned,     \* a capture has returned Err(LinkError::AllocationFailed)
    numPeers,        \* engine: number of other peers in the session
    linkB,           \* a second Link of the same process: [state, session, received]
    timeValues,      \* Instant / Duration operands in hand and the latest result
    linkAddr,        \* the memory location the Link value currently occupies
    context,         \* Slots -> location the engine holds as callback context, 0 = none
    danglingDeref,   \* a trampoline has dereferenced a context that is not the slot
    received         \* what the transport-state user callback was last called with

vars == <<link, dropPos, engineState, destroyCount, useAfterDestroy, storage,
          slot, mutex, poisoned, registered, requested, epc, process,
          pc, inEngine, tokens, enabled, startStopSync, session, snaps,
          errReturned, numPeers, linkB,
          timeValues, linkAddr, context, danglingDeref, received>>

lifeVars == <<link, dropPos, engineState, destroyCount, storage>>
cbVars == <<slot, mutex, poisoned, registered, requested, epc, process>>
accVars == <<inEngine, tokens, enabled, startStopSync, session, snaps>>
envRest == <<timeValues, linkAddr, context, danglingDeref, received>>
envVars == <<errReturned, numPeers, linkB, envRest>>

Idle == [op |-> "idle", slot |-> "-", snap |-> 0]
EIdle == [pc |-> "idle", slot |-> "-", cb |-> 0]
\* What a native session state holds: the tempo, the beat/time mapping, the
\* transport target (time as the engine's u64) and, in a captured snapshot,
\* whether peers were present.  Beats are integers in units of 1/120 beat and
\* an Instant tick stands for half a second, so that the beat at time t is
\* tempo * t + shift.
TimelineOf(r) == [tempo |-> r.tempo, shift |-> r.shift,
                  playing |-> r.playing, time |-> r.time]

\* The session of a Link created with 120 BPM: "If no transport state has ever
\* been set, returns a time of 0."
InitialTimeline == [tempo |-> 120, shift |-> 0, playing |-> FALSE, time |-> 0]

\* The transport-state user callback has not been called.
NothingReceived == [is_playing |-> FALSE, state |-> "none"]

\* No time arithmetic in hand.
NoResult == [op |-> "none", ok |-> TRUE, val |-> 0]

NoTimeValues == [a |-> 0, b |-> 0, d |-> 0, k |-> 0, n |-> 0, std |-> 0,
                 checks |-> FALSE, result |-> NoResult]

NoSnapshot == [state |-> "none", path |-> "-", committed |-> FALSE,
               destroys |-> 0, tempo |-> 120, shift |-> 0,
               playing |-> FALSE, time |-> 0, peers |-> FALSE]

Init ==
    /\ link = "none"
    /\ dropPos = 0
    /\ engineState = "none"
    /\ destroyCount = 0
    /\ useAfterDestroy = FALSE
    /\ storage = "none"
    /\ slot = [s \in Slots |-> 0]
    /\ mutex = [s \in Slots |-> 0]
    /\ poisoned = [s \in Slots |-> FALSE]
    /\ registered = [s \in Slots |-> FALSE]
    /\ requested = [s \in Slots |-> 0]
    /\ epc = [e \in EngineThreads |-> EIdle]
    /\ process = "running"
    /\ pc = [t \in AppThreads |-> Idle]
    /\ inEngine = [t \in AppThreads |-> "none"]
    /\ tokens = {}
    /\ enabled = FALSE
    /\ startStopSync = FALSE
    /\ session = InitialTimeline
    /\ snaps = [i \in SnapIds |-> NoSnapshot]
    /\ errReturned = FALSE
    /\ numPeers = 0
    /\ linkB = [state |-> "none", session |-> InitialTimeline, received |-> FALSE]
    /\ timeValues = NoTimeValues
    /\ linkAddr = 1
    /\ context = [s \in Slots |-> 0]
    /\ danglingDeref = FALSE
    /\ received = NothingReceived

\* ------------------------------------------------------ access discipline

\* Methods of Link that are in progress while pc[t].op names them.
LinkMethods == {"capture_app_session_state", "commit_app_session_state",
                "set_callback"}

\* Methods of AudioLink that are in progress while pc[t].op names them.
AudioLinkMethods == {"capture_session_state", "commit_session_state"}

\* The receiver each method of Link declares: "ref" for &self, "mut" for
\* &mut self (Drop::drop takes &mut self of an owned value).
ReceiverBindShared(m) ==
    IF m \in {"commit_app_session_state", "drop"} THEN "mut" ELSE "ref"

Receiver(m) ==
    IF m \in {"commit_app_session_state", "bind_audio_thread", "drop"}
    THEN "mut" ELSE "ref"

BorrowsLink(u) == pc[u].op \in LinkMethods

\* What the borrow checker admits: a &mut self call needs the Link unborrowed
\* (an AudioLink keeps the borrow of bind_audio_thread for its lifetime 'a);
\* a &self call needs no exclusive borrow outstanding.
CanStart(t, m) ==
    /\ process = "running"
    /\ link = "alive"
    /\ pc[t].op = "idle"
    /\ IF Receiver(m) = "mut"
       THEN /\ \A u \in AppThreads : ~BorrowsLink(u)
            /\ tokens = {}
       ELSE /\ \A u \in AppThreads : BorrowsLink(u) => Receiver(pc[u].op) = "ref"
            /\ tokens # {} => Receiver("bind_audio_thread") = "ref"

\* Every unsafe { sys::abl_link_*(self.handle, ..) } call: the instance must
\* still exist.
EngineCall == useAfterDestroy' = (useAfterDestroy \/ engineState # "alive")

\* ------------------------------------------------------------ Link::new

\* Mutex::new(None): what a callback field holds in the value Link::new
\* returns.
new_callback_field_some(s) == 1

new_callback_field(s) == 0

\* abl_link_create returned null: Err(LinkError::AllocationFailed), no Link
\* value is built (so nothing will ever run Drop for Link).
new(ok) ==
    /\ link = "none"
    /\ IF ok
       THEN /\ link' = "alive"
            /\ engineState' = "alive"
            /\ storage' = "valid"
            /\ slot' = [s \in Slots |-> new_callback_field(s)]
       ELSE /\ link' = "failed"
            /\ UNCHANGED <<engineState, storage, slot>>
    /\ UNCHANGED <<dropPos, destroyCount, useAfterDestroy>>
    /\ UNCHANGED <<mutex, poisoned, registered, requested, epc, process>>
    /\ UNCHANGED <<pc>>
    /\ UNCHANGED accVars
    /\ UNCHANGED envVars

\* ------------------------------------------------------- impl Drop for Link

\* Drop::drop runs first (it calls abl_link_destroy), the fields are dropped
\* after it returns.
DropFieldsFirst == <<"drop_fields", "abl_link_destroy">>

DropDestroysTwice == <<"abl_link_destroy", "abl_link_destroy", "drop_fields">>

DropSteps == <<"abl_link_destroy", "drop_fields">>

drop_begin ==
    /\ process = "running"
    /\ link = "alive"
    /\ \A u \in AppThreads : pc[u].op = "idle"
    /\ tokens = {}
    /\ link' = "dropping"
    /\ dropPos' = 1
    /\ UNCHANGED <<engineState, destroyCount, useAfterDestroy, storage>>
    /\ UNCHANGED cbVars
    /\ UNCHANGED <<pc>>
    /\ UNCHANGED accVars
    /\ UNCHANGED envVars

\* abl_link_destroy "waits for pending callbacks to complete".
drop_step ==
    /\ process = "running"
    /\ link = "dropping"
    /\ dropPos <= Len(DropSteps)
    /\ IF DropSteps[dropPos] = "abl_link_destroy"
       THEN /\ \A e \in EngineThreads : epc[e].pc = "idle"
            /\ EngineCall
            /\ engineState' = "destroyed"
            /\ destroyCount' = destroyCount + 1
            /\ UNCHANGED storage
       ELSE /\ storage' = "freed"
            /\ UNCHANGED <<engineState, destroyCount, useAfterDestroy>>
    /\ dropPos' = dropPos + 1
    /\ link' = IF dropPos = Len(DropSteps) THEN "dropped" ELSE "dropping"
    /\ UNCHANGED cbVars
    /\ UNCHANGED <<pc>>
    /\ UNCHANGED accVars
    /\ UNCHANGED envVars

\* ------------------------------------------------------------ trampoline

\* std::panic::catch_unwind around the closure that locks and calls: what
\* leaves the extern "C" function for each outcome of the user callback.
no_catch_unwind(outcome) ==
    IF outcome = "panicked" THEN "unwind" ELSE "return"

catch_unwind(outcome) == "return"

\* Dropping a MutexGuard while the thread is panicking poisons the Mutex.
guard_drop_poisons(outcome) == outcome = "panicked"

\* The engine calls the registered trampoline with the context pointer;
\* mutex.lock() blocks while the Mutex is held.
trampoline_lock(e, s) ==
    /\ process = "running"
    /\ engineState = "alive"
    /\ registered[s]
    /\ context[s] = linkAddr
    /\ epc[e].pc = "idle"
    /\ mutex[s] = 0
    /\ mutex' = [mutex EXCEPT ![s] = e]
    /\ epc' = [epc EXCEPT ![e] = [pc |-> "locked", slot |-> s, cb |-> 0]]
    /\ UNCHANGED <<slot, poisoned, registered, requested, process>>
    /\ UNCHANGED lifeVars
    /\ UNCHANGED <<useAfterDestroy, pc>>
    /\ UNCHANGED accVars
    /\ UNCHANGED envVars

\* The MutexGuard `guard` lives until the end of the if-let body, so the
\* Mutex stays held by the calling thread while callback(value) runs.
guard_released_before_call(e) == 0

guard_held_during_call(e) == e

\* A trampoline that recovers the guard of a poisoned Mutex and goes on.
trampoline_dispatch_ignores_poison(e) ==
    /\ process = "running"
    /\ epc[e].pc = "locked"
    /\ LET s == epc[e].slot IN
       IF slot[s] = 0
       THEN /\ mutex' = [mutex EXCEPT ![s] = 0]
            /\ epc' = [epc EXCEPT ![e] = EIdle]
       ELSE /\ epc' = [epc EXCEPT ![e] = [pc |-> "in_cb", slot |-> s, cb |-> slot[s]]]
            /\ mutex' = [mutex EXCEPT ![s] = guard_held_during_call(e)]
    /\ UNCHANGED <<slot, poisoned, registered, requested, process>>
    /\ UNCHANGED lifeVars
    /\ UNCHANGED <<useAfterDestroy, pc>>
    /\ UNCHANGED accVars
    /\ UNCHANGED envVars

\* if let Ok(mut guard) = mutex.lock() && let Some(callback) = guard.as_mut()
trampoline_dispatch(e) ==
    /\ process = "running"
    /\ epc[e].pc = "locked"
    /\ LET s == epc[e].slot IN
       IF poisoned[s] \/ slot[s] = 0
       THEN /\ mutex' = [mutex EXCEPT ![s] = 0]
            /\ epc' = [epc EXCEPT ![e] = EIdle]
       ELSE /\ epc' = [epc EXCEPT ![e] = [pc |-> "in_cb", slot |-> s, cb |-> slot[s]]]
            /\ mutex' = [mutex EXCEPT ![s] = guard_held_during_call(e)]
    /\ UNCHANGED <<slot, poisoned, registered, requested, process>>
    /\ UNCHANGED lifeVars
    /\ UNCHANGED <<useAfterDestroy, pc>>
    /\ UNCHANGED accVars
    /\ UNCHANGED envVars

\* One lock for the three slots: a fault poisons them all.
trampoline_call_shared_lock(e, outcome) ==
    /\ process = "running"
    /\ epc[e].pc = "in_cb"
    /\ LET s == epc[e].slot IN
       /\ mutex' = [mutex EXCEPT ![s] = 0]
       /\ poisoned' = [x \in Slots |-> poisoned[x] \/ guard_drop_poisons(outcome)]
    /\ epc' = [epc EXCEPT ![e] = EIdle]
    /\ process' = IF catch_unwind(outcome) = "return" THEN "running" ELSE "aborted"
    /\ UNCHANGED <<slot, registered, requested>>
    /\ UNCHANGED lifeVars
    /\ UNCHANGED <<useAfterDestroy, pc>>
    /\ UNCHANGED accVars
    /\ UNCHANGED envVars

\* callback(value) returns or panics; the guard is dropped either way.
trampoline_call(e, outcome) ==
    /\ process = "running"
    /\ epc[e].pc = "in_cb"
    /\ LET s == epc[e].slot IN
       /\ mutex' = [mutex EXCEPT ![s] = 0]
       /\ poisoned' = [poisoned EXCEPT ![s] = @ \/ guard_drop_poisons(outcome)]
    /\ epc' = [epc EXCEPT ![e] = EIdle]
    /\ process' = IF catch_unwind(outcome) = "return" THEN "running" ELSE "aborted"
    /\ UNCHANGED <<slot, registered, requested>>
    /\ UNCHANGED lifeVars
    /\ UNCHANGED <<useAfterDestroy, pc>>
    /\ UNCHANGED accVars
    /\ UNCHANGED envVars

\* The user callback, running under the trampoline's guard, calls
\* set_*_callback or clear_*_callback for its own slot on the same Link
\* (Link is Send + Sync and both methods take &self, so a 'static closure
\* can own an Arc<Link>).  The call starts with self.<slot>.lock().
callback_calls(e, m) ==
    /\ process = "running"
    /\ epc[e].pc = "in_cb"
    /\ epc' = [epc EXCEPT ![e].pc = m]
    /\ UNCHANGED <<slot, mutex, poisoned, registered, requested, process>>
    /\ UNCHANGED lifeVars
    /\ UNCHANGED <<useAfterDestroy, pc>>
    /\ UNCHANGED accVars
    /\ UNCHANGED envVars

\* std::sync::Mutex::lock on the thread that already holds the lock "will
\* not return": it deadlocks, or it panics; the panic unwinds through the
\* callback and the trampoline's guard (poisoning the Mutex) into
\* catch_unwind.  A Mutex held by another thread is waited for.
callback_lock(e, outcome) ==
    /\ process = "running"
    /\ epc[e].pc \in {"set_callback", "clear_callback"}
    /\ LET s == epc[e].slot IN
       /\ mutex[s] = e
       /\ IF outcome = "deadlock"
          THEN /\ epc' = [epc EXCEPT ![e].pc = "deadlocked"]
               /\ UNCHANGED <<mutex, poisoned>>
          ELSE /\ epc' = [epc EXCEPT ![e] = EIdle]
               /\ mutex' = [mutex EXCEPT ![s] = 0]
               /\ poisoned' = [poisoned EXCEPT ![s] = TRUE]
    /\ UNCHANGED <<slot, registered, requested, process>>
    /\ UNCHANGED lifeVars
    /\ UNCHANGED <<useAfterDestroy, pc>>
    /\ UNCHANGED accVars
    /\ UNCHANGED envVars

\* ----------------------------------------- set_*_callback / clear_*_callback

\* *self.X_callback.lock().unwrap() = Some(boxed): the value the slot holds
\* after the assignment.
store_keeps_old(old, cb) == IF old = 0 THEN cb ELSE old

store_callback(old, cb) == cb

\* *self.X_callback.lock().unwrap() = None
clear_keeps(old) == old

clear_callback(old) == 0

\* lock().unwrap() on a poisoned Mutex panics before anything is assigned.
unwrap_ignores_poison(p) == FALSE

unwrap_panics(p) == p

\* std::ptr::from_ref(&self.<slot>): the address of the field inside the
\* Link value, which is where the Link is at the time of the call.
from_ref(addr, s) == addr

SetCallback(t, s, cb) ==
    /\ CanStart(t, "set_callback")
    /\ mutex[s] = 0
    /\ IF unwrap_panics(poisoned[s])
       THEN /\ pc' = [pc EXCEPT ![t] = [op |-> "set_panicked", slot |-> s, snap |-> 0]]
            /\ UNCHANGED <<slot, requested>>
       ELSE /\ slot' = [slot EXCEPT ![s] = store_callback(@, cb)]
            /\ requested' = [requested EXCEPT ![s] = cb]
            /\ pc' = [pc EXCEPT ![t] = [op |-> "set_callback", slot |-> s, snap |-> 0]]
    /\ UNCHANGED <<mutex, poisoned, registered, epc, process>>
    /\ UNCHANGED lifeVars
    /\ UNCHANGED <<useAfterDestroy>>
    /\ UNCHANGED accVars
    /\ UNCHANGED envVars

\* sys::abl_link_set_*_callback(self.handle, Some(trampoline::<T>), context)
register_trampoline(t) ==
    /\ process = "running"
    /\ pc[t].op = "set_callback"
    /\ EngineCall
    /\ registered' = [registered EXCEPT ![pc[t].slot] = TRUE]
    /\ context' = [context EXCEPT ![pc[t].slot] = from_ref(linkAddr, pc[t].slot)]
    /\ pc' = [pc EXCEPT ![t] = Idle]
    /\ UNCHANGED <<slot, mutex, poisoned, requested, epc, process>>
    /\ UNCHANGED lifeVars
    /\ UNCHANGED accVars
    /\ UNCHANGED <<errReturned, numPeers, linkB, timeValues, linkAddr, danglingDeref, received>>

\* A Link is an ordinary value: `let moved = link;`, Box::new(link) or
\* returning it from a function copies its bytes, the three Mutex fields
\* included, to another location, and the old location is dead.  The borrow
\* checker allows it whenever no reference to the Link is live: no method is
\* running and no AudioLink exists.  The engine holds raw pointers, which
\* borrow nothing.  An engine thread that is inside the trampoline at that
\* moment is using a &Mutex whose referent has gone.
move_link(outcome) ==
    /\ process = "running"
    /\ link = "alive"
    /\ \A u \in AppThreads : pc[u].op = "idle"
    /\ tokens = {}
    /\ linkAddr <= MaxMoves
    /\ linkAddr' = linkAddr + 1
    /\ IF \E e \in EngineThreads : epc[e].pc # "idle"
       THEN /\ danglingDeref' = TRUE
            /\ process' = IF outcome = "crash" THEN "aborted" ELSE "running"
       ELSE /\ outcome = "stale"
            /\ UNCHANGED <<danglingDeref, process>>
    /\ UNCHANGED <<slot, mutex, poisoned, registered, requested, epc>>
    /\ UNCHANGED lifeVars
    /\ UNCHANGED <<useAfterDestroy, pc>>
    /\ UNCHANGED accVars
    /\ UNCHANGED <<errReturned, numPeers, linkB, timeValues, context, received>>

\* The engine invokes the trampoline with a context that is no longer the
\* slot: &*context.cast::<Mutex<..>>() reads memory the Link has left.  The
\* behaviour is undefined: the bytes left behind may still pass for the
\* Mutex (nothing of the live slot is touched), or the process faults.
trampoline_dangling(e, s, outcome) ==
    /\ process = "running"
    /\ engineState = "alive"
    /\ registered[s]
    /\ context[s] # linkAddr
    /\ epc[e].pc = "idle"
    /\ danglingDeref' = TRUE
    /\ process' = IF outcome = "crash" THEN "aborted" ELSE "running"
    /\ UNCHANGED <<slot, mutex, poisoned, registered, requested, epc>>
    /\ UNCHANGED lifeVars
    /\ UNCHANGED <<useAfterDestroy, pc>>
    /\ UNCHANGED accVars
    /\ UNCHANGED <<errReturned, numPeers, linkB, timeValues, linkAddr, context, received>>

ClearCallback(t, s) ==
    /\ CanStart(t, "clear_callback")
    /\ mutex[s] = 0
    /\ IF unwrap_panics(poisoned[s])
       THEN /\ pc' = [pc EXCEPT ![t] = [op |-> "clear_panicked", slot |-> s, snap |-> 0]]
            /\ UNCHANGED <<slot, requested>>
       ELSE /\ slot' = [slot EXCEPT ![s] = clear_callback(@)]
            /\ requested' = [requested EXCEPT ![s] = 0]
            /\ UNCHANGED pc
    /\ UNCHANGED <<mutex, poisoned, registered, epc, process>>
    /\ UNCHANGED lifeVars
    /\ UNCHANGED <<useAfterDestroy>>
    /\ UNCHANGED accVars
    /\ UNCHANGED envVars

set_num_peers_callback(t, cb) == SetCallback(t, "num_peers_callback", cb)

clear_num_peers_callback(t) == ClearCallback(t, "num_peers_callback")

set_tempo_callback(t, cb) == SetCallback(t, "tempo_callback", cb)

clear_tempo_callback(t) == ClearCallback(t, "tempo_callback")

set_transport_state_callback(t, cb) == SetCallback(t, "start_stop_callback", cb)

clear_transport_state_callback(t) == ClearCallback(t, "start_stop_callback")

\* The panic of lock().unwrap() unwinds out of the call into the caller.
panic_unwound(t) ==
    /\ process = "running"
    /\ pc[t].op \in {"set_panicked", "clear_panicked"}
    /\ pc' = [pc EXCEPT ![t] = Idle]
    /\ UNCHANGED cbVars
    /\ UNCHANGED lifeVars
    /\ UNCHANGED <<useAfterDestroy>>
    /\ UNCHANGED accVars
    /\ UNCHANGED envVars

\* ------------------------------------------- Link: flags, clock, peer count

\* set_enabled (enable / disable delegate to it).
set_enabled(t, b) ==
    /\ CanStart(t, "set_enabled")
    /\ EngineCall
    /\ enabled' = b
    /\ UNCHANGED <<inEngine, tokens, startStopSync, session, snaps>>
    /\ UNCHANGED lifeVars
    /\ UNCHANGED cbVars
    /\ UNCHANGED pc
    /\ UNCHANGED envVars

\* set_transport_sync_enabled (enable_ / disable_transport_sync delegate to it).
set_transport_sync_enabled(t, b) ==
    /\ CanStart(t, "set_transport_sync_enabled")
    /\ EngineCall
    /\ startStopSync' = b
    /\ UNCHANGED <<inEngine, tokens, enabled, session, snaps>>
    /\ UNCHANGED lifeVars
    /\ UNCHANGED cbVars
    /\ UNCHANGED pc
    /\ UNCHANGED envVars

\* is_enabled, num_peers, is_transport_sync_enabled, clock_now: reads.
query(t) ==
    /\ CanStart(t, "query")
    /\ EngineCall
    /\ UNCHANGED accVars
    /\ UNCHANGED lifeVars
    /\ UNCHANGED cbVars
    /\ UNCHANGED pc
    /\ UNCHANGED envVars

\* ------------------------------------------------------- capture / commit

\* The engine entry point each capture / commit method calls.
EntryPointAllApp(type, what) ==
    IF what = "capture" THEN "abl_link_capture_app_session_state"
    ELSE "abl_link_commit_app_session_state"

EntryPoint(type, what) ==
    IF type = "Link"
    THEN IF what = "capture" THEN "abl_link_capture_app_session_state"
         ELSE "abl_link_commit_app_session_state"
    ELSE IF what = "capture" THEN "abl_link_capture_audio_session_state"
         ELSE "abl_link_commit_audio_session_state"

AppEntryPoints == {"abl_link_capture_app_session_state",
                   "abl_link_commit_app_session_state"}

AudioEntryPoints == {"abl_link_capture_audio_session_state",
                     "abl_link_commit_audio_session_state"}

\* A native session state not yet allocated.
FreeSnap(i) == snaps[i].state = "none" /\ \A j \in SnapIds : j < i => snaps[j].state # "none"

\* A SessionState in scope that no call is using (SessionState is Send and not
\* Sync: one thread at a time).
Usable_after_drop(i) == snaps[i].state \in {"live", "dropped"}

Usable(i) == snaps[i].state = "live" /\ \A u \in AppThreads : pc[u].snap # i

\* if session_state.impl_.is_null() { return Err(LinkError::AllocationFailed) }
\* comes before the capture call: the entry point the thread is in stays as
\* it was.
allocation_failed_after_capture(type, cur) == EntryPoint(type, "capture")

allocation_failed(type, cur) == cur

\* abl_link_create_session_state, the null check, then the capture call.  When
\* the allocation fails the method returns Err(LinkError::AllocationFailed) as
\* a value at once: no capture entry point is called and nothing is produced.
\* errReturned is the outcome of the latest capture call.
CaptureAlloc(t, type, method, ok) ==
    IF ok
    THEN \E i \in SnapIds :
           /\ FreeSnap(i)
           /\ snaps' = [snaps EXCEPT ![i] = [@ EXCEPT !.state = "raw",
                                                    !.path = type]]
           /\ pc' = [pc EXCEPT ![t] = [op |-> method, slot |-> "-", snap |-> i]]
           /\ inEngine' = [inEngine EXCEPT ![t] = EntryPoint(type, "capture")]
           /\ EngineCall
           /\ errReturned' = FALSE
    ELSE /\ errReturned' = TRUE
         /\ inEngine' = [inEngine EXCEPT ![t] = allocation_failed(type, @)]
         /\ UNCHANGED <<pc, snaps, useAfterDestroy>>

\* abl_link_capture_app_session_state / _audio_session_state fill the native
\* session state with the Link's current session state.
abl_link_capture_stale(r, sess, peers) == [r EXCEPT !.state = "live"]

abl_link_capture_session_state(r, sess, peers) ==
    [r EXCEPT !.state = "live", !.tempo = sess.tempo, !.shift = sess.shift,
              !.playing = sess.playing, !.time = sess.time, !.peers = peers > 0]

\* abl_link_commit_app_session_state / _audio_session_state: "The given
\* session state will replace the current Link session state".
abl_link_commit_tempo_only(sess, c) == [sess EXCEPT !.tempo = c.tempo]

abl_link_commit_session_state(sess, c) == TimelineOf(c)

\* The capture call returns; Ok(SessionState { handle }).
CaptureReturn(t, method) ==
    /\ process = "running"
    /\ pc[t].op = method
    /\ snaps' = [snaps EXCEPT ![pc[t].snap] =
                    abl_link_capture_session_state(@, session, numPeers)]
    /\ inEngine' = [inEngine EXCEPT ![t] = "none"]
    /\ pc' = [pc EXCEPT ![t] = Idle]
    /\ UNCHANGED <<tokens, enabled, startStopSync, session, useAfterDestroy>>
    /\ UNCHANGED lifeVars
    /\ UNCHANGED cbVars
    /\ UNCHANGED envVars

CommitCall(t, i, type, method) ==
    /\ Usable(i)
    /\ pc' = [pc EXCEPT ![t] = [op |-> method, slot |-> "-", snap |-> i]]
    /\ inEngine' = [inEngine EXCEPT ![t] = EntryPoint(type, "commit")]
    /\ EngineCall
    /\ UNCHANGED <<tokens, enabled, startStopSync, session, snaps>>
    /\ UNCHANGED lifeVars
    /\ UNCHANGED cbVars
    /\ UNCHANGED envVars

\* The commit call returns: the snapshot has replaced the session state.
CommitReturn(t, method) ==
    /\ process = "running"
    /\ pc[t].op = method
    /\ session' = abl_link_commit_session_state(session, snaps[pc[t].snap])
    /\ snaps' = [snaps EXCEPT ![pc[t].snap] = [@ EXCEPT !.committed = TRUE]]
    /\ inEngine' = [inEngine EXCEPT ![t] = "none"]
    /\ pc' = [pc EXCEPT ![t] = Idle]
    /\ UNCHANGED <<tokens, enabled, startStopSync, useAfterDestroy>>
    /\ UNCHANGED lifeVars
    /\ UNCHANGED cbVars
    /\ UNCHANGED envVars

capture_app_session_state(t, ok) ==
    /\ CanStart(t, "capture_app_session_state")
    /\ CaptureAlloc(t, "Link", "capture_app_session_state", ok)
    /\ UNCHANGED <<tokens, enabled, startStopSync, session>>
    /\ UNCHANGED lifeVars
    /\ UNCHANGED cbVars
    /\ UNCHANGED <<numPeers, linkB, envRest>>

capture_app_session_state_return(t) == CaptureReturn(t, "capture_app_session_state")

commit_app_session_state(t, i) ==
    /\ CanStart(t, "commit_app_session_state")
    /\ CommitCall(t, i, "Link", "commit_app_session_state")

commit_app_session_state_return(t) == CommitReturn(t, "commit_app_session_state")

\* ------------------------------------------------------------- AudioLink

bind_audio_thread(t) ==
    /\ CanStart(t, "bind_audio_thread")
    /\ tokens' = tokens \cup {t}
    /\ UNCHANGED <<inEngine, enabled, startStopSync, session, snaps>>
    /\ UNCHANGED lifeVars
    /\ UNCHANGED cbVars
    /\ UNCHANGED <<pc, useAfterDestroy>>
    /\ UNCHANGED envVars

\* AudioLink is !Send and !Sync: its methods run on the thread that holds it.
TokenCanStart_any_thread(t) ==
    /\ process = "running"
    /\ tokens # {}
    /\ pc[t].op = "idle"

TokenCanStart(t) ==
    /\ process = "running"
    /\ t \in tokens
    /\ pc[t].op = "idle"

\* The AudioLink goes out of scope; the borrow of the Link ends.
drop_audio_link(t) ==
    /\ TokenCanStart(t)
    /\ tokens' = tokens \ {t}
    /\ UNCHANGED <<inEngine, enabled, startStopSync, session, snaps>>
    /\ UNCHANGED lifeVars
    /\ UNCHANGED cbVars
    /\ UNCHANGED <<pc, useAfterDestroy>>
    /\ UNCHANGED envVars

\* delegate!: clock_now, is_enabled, num_peers, is_transport_sync_enabled.
audio_query(t) ==
    /\ TokenCanStart(t)
    /\ EngineCall
    /\ UNCHANGED accVars
    /\ UNCHANGED lifeVars
    /\ UNCHANGED cbVars
    /\ UNCHANGED pc
    /\ UNCHANGED envVars

\* The delegate! list of AudioLink has the transport-sync setters and no
\* enable / disable / set_enabled: the enabled flag after a delegated setter.
delegate_sets_enabled(e, b) == b

delegate_leaves_enabled(e, b) == e

\* delegate!: set_transport_sync_enabled, enable_ / disable_transport_sync.
audio_set_transport_sync_enabled(t, b) ==
    /\ TokenCanStart(t)
    /\ EngineCall
    /\ startStopSync' = b
    /\ enabled' = delegate_leaves_enabled(enabled, b)
    /\ UNCHANGED <<inEngine, tokens, session, snaps>>
    /\ UNCHANGED lifeVars
    /\ UNCHANGED cbVars
    /\ UNCHANGED pc
    /\ UNCHANGED envVars

capture_session_state(t, ok) ==
    /\ TokenCanStart(t)
    /\ CaptureAlloc(t, "AudioLink", "capture_session_state", ok)
    /\ UNCHANGED <<tokens, enabled, startStopSync, session>>
    /\ UNCHANGED lifeVars
    /\ UNCHANGED cbVars
    /\ UNCHANGED <<numPeers, linkB, envRest>>

capture_session_state_return(t) == CaptureReturn(t, "capture_session_state")

commit_session_state(t, i) ==
    /\ TokenCanStart(t)
    /\ CommitCall(t, i, "AudioLink", "commit_session_state")

commit_session_state_return(t) == CommitReturn(t, "commit_session_state")

\* ------------------------------------------------- Instant, TransportState

\* Instant(i64) and the u64 parameters of the engine, at the width InstantBits
\* instead of 64 (two's complement, integer range Instants).
cast_unsigned_saturating(x) == IF x < 0 THEN 0 ELSE x

cast_unsigned(x) == IF x < 0 THEN x + 2^InstantBits ELSE x

cast_signed(u) == IF u >= 2^(InstantBits - 1) THEN u - 2^InstantBits ELSE u

Instants == -(2^(InstantBits - 1)) .. (2^(InstantBits - 1) - 1)

Unsigneds == 0 .. (2^InstantBits - 1)

from_micros(micros) == micros

as_micros(time) == time

as_u64(time) == cast_unsigned(time)

TransportStates == {"Play", "Stop"}

\* impl From<bool> for TransportState / impl From<TransportState> for bool
TransportState_from_swapped(playing) == IF playing THEN "Stop" ELSE "Play"

TransportState_from(playing) == IF playing THEN "Play" ELSE "Stop"

bool_from(state) == state = "Play"

\* The closure set_transport_state_callback stores:
\* move |is_playing: bool| callback(TransportState::from(is_playing)).
transport_state_wrapper(is_playing) == TransportState_from(is_playing)

\* trampoline::<bool> for the transport-state slot, with the value the
\* engine passes: the stored wrapper is called with it and calls the user
\* callback with what it makes of it.
start_stop_dispatch(e, is_playing) ==
    /\ process = "running"
    /\ epc[e].pc = "locked"
    /\ epc[e].slot = "start_stop_callback"
    /\ LET s == epc[e].slot IN
       IF poisoned[s] \/ slot[s] = 0
       THEN /\ mutex' = [mutex EXCEPT ![s] = 0]
            /\ epc' = [epc EXCEPT ![e] = EIdle]
            /\ UNCHANGED received
       ELSE /\ epc' = [epc EXCEPT ![e] = [pc |-> "in_cb", slot |-> s, cb |-> slot[s]]]
            /\ mutex' = [mutex EXCEPT ![s] = guard_held_during_call(e)]
            /\ received' = [is_playing |-> is_playing,
                            state |-> transport_state_wrapper(is_playing)]
    /\ UNCHANGED <<slot, poisoned, registered, requested, process>>
    /\ UNCHANGED lifeVars
    /\ UNCHANGED <<useAfterDestroy, pc>>
    /\ UNCHANGED accVars
    /\ UNCHANGED <<errReturned, numPeers, linkB, timeValues, linkAddr, context,
                   danglingDeref>>

\* ------------------------------------- the native session state (a timeline)

abl_link_tempo(c) == c.tempo

\* "the beat value at this time is preserved, while beat values at all other
\* times are recalculated according to the new tempo"
abl_link_set_tempo_keeps_origin(c, bpm, micros) == [c EXCEPT !.tempo = bpm]

abl_link_set_tempo(c, bpm, micros) ==
    [c EXCEPT !.tempo = bpm, !.shift = c.shift + (c.tempo - bpm) * micros]

abl_link_beat_at_time(c, micros, quantum) == c.tempo * micros + c.shift

\* "This is the inverse of beat_at_time, assuming constant tempo": the result
\* is an i64 count of clock ticks, the one closest to where the beat falls.
abl_link_time_at_beat_unshifted(c, beat, quantum) ==
    (2 * beat + c.tempo) \div (2 * c.tempo)

abl_link_time_at_beat(c, beat, quantum) ==
    (2 * (beat - c.shift) + c.tempo) \div (2 * c.tempo)

\* The remainder of f64 division (Rust's and C's %: the sign of the dividend).
beat_rem(b, quantum) == IF b >= 0 THEN b % quantum ELSE -((-b) % quantum)

\* "The result is in the interval [0, quantum).  This is equivalent to
\* beat_at_time(t, q) % q for non-negative beat values, but handles negative
\* values correctly": a negative remainder is moved up by one quantum.
abl_link_phase_at_time_truncating(c, micros, quantum) ==
    beat_rem(abl_link_beat_at_time(c, micros, quantum), quantum)

abl_link_phase_at_time_session_quantum(c, micros, quantum) ==
    LET r == beat_rem(abl_link_beat_at_time(c, micros, 480), 480)
    IN  IF r < 0 THEN r + 480 ELSE r

abl_link_phase_at_time(c, micros, quantum) ==
    LET r == beat_rem(abl_link_beat_at_time(c, micros, quantum), quantum)
    IN  IF r < 0 THEN r + quantum ELSE r

\* "the entire timeline shifts" so that the beat is `beat` at `micros`.
abl_link_force_beat_at_time(c, beat, u64, quantum) ==
    [c EXCEPT !.shift = beat - c.tempo * cast_signed(u64)]

\* "When alone: the beat is mapped to at_time.  When not alone: the beat is
\* mapped to the first time >= at_time where the session phase matches the
\* phase of beat" (only the local magnitude changes, the phase is kept).
abl_link_request_beat_at_time_immediate(c, beat, micros, quantum) ==
    [c EXCEPT !.shift = beat - c.tempo * micros]

abl_link_request_beat_at_time(c, beat, micros, quantum) ==
    LET cur == abl_link_beat_at_time(c, micros, quantum)
        target == cur + ((beat - cur) % quantum)
    IN  IF c.peers
        THEN [c EXCEPT !.shift = c.shift + (beat - target)]
        ELSE [c EXCEPT !.shift = beat - c.tempo * micros]

abl_link_is_playing(c) == c.playing

abl_link_set_is_playing(c, playing, u64) ==
    [c EXCEPT !.playing = playing, !.time = u64]

abl_link_time_for_is_playing(c) == c.time

\* "This calls request_beat_at_time with the time from transport_state_time.
\* This is a no-op if transport is stopped."  The engine keeps the time it
\* was given as u64 and reads it as the signed clock value.
abl_link_request_beat_at_start_playing_time_raw(c, beat, quantum) ==
    IF c.playing
    THEN abl_link_request_beat_at_time(c, beat, c.time, quantum)
    ELSE c

abl_link_request_beat_at_start_playing_time(c, beat, quantum) ==
    IF c.playing
    THEN abl_link_request_beat_at_time(c, beat, cast_signed(c.time), quantum)
    ELSE c

\* "equivalent to calling start_transport_at followed by
\* request_beat_at_transport_state_time"
abl_link_request_beat_then_set_is_playing(c, playing, u64, beat, quantum) ==
    abl_link_set_is_playing(
        abl_link_request_beat_at_start_playing_time(c, beat, quantum), playing, u64)

abl_link_set_is_playing_and_request_beat_at_time(c, playing, u64, beat, quantum) ==
    abl_link_request_beat_at_start_playing_time(
        abl_link_set_is_playing(c, playing, u64), beat, quantum)

\* ------------------------------------------------- impl SessionState (pure)

tempo(c) == abl_link_tempo(c)

set_tempo(c, bpm, time) == abl_link_set_tempo(c, bpm, as_micros(time))

beat_at_time(c, time, quantum) == abl_link_beat_at_time(c, as_micros(time), quantum)

phase_at_time(c, time, quantum) == abl_link_phase_at_time(c, as_micros(time), quantum)

time_at_beat(c, beat, quantum) ==
    from_micros(abl_link_time_at_beat(c, beat, quantum))

request_beat_at_time_unsigned(c, beat, time, quantum) ==
    abl_link_request_beat_at_time(c, beat, as_u64(time), quantum)

request_beat_at_time(c, beat, time, quantum) ==
    abl_link_request_beat_at_time(c, beat, as_micros(time), quantum)

force_beat_at_time(c, beat, time, quantum) ==
    abl_link_force_beat_at_time(c, beat, as_u64(time), quantum)

transport_state(c) == TransportState_from(abl_link_is_playing(c))

set_transport_state_at(c, state, time) ==
    abl_link_set_is_playing(c, bool_from(state), as_u64(time))

start_transport_at(c, time) == set_transport_state_at(c, "Play", time)

stop_transport_at(c, time) == set_transport_state_at(c, "Stop", time)

transport_state_time(c) == from_micros(cast_signed(abl_link_time_for_is_playing(c)))

request_beat_at_transport_state_time(c, beat, quantum) ==
    abl_link_request_beat_at_start_playing_time(c, beat, quantum)

start_transport_and_request_beat_at(c, beat, time, quantum) ==
    abl_link_set_is_playing_and_request_beat_at_time(c, TRUE, as_u64(time), beat, quantum)

\* ---------------------------------------------------------- SessionState

\* Some thread is outside every call, free to use a SessionState it owns.
CallerAvailable == process = "running" /\ {t \in AppThreads : pc[t].op = "idle"} # {}

\* SessionState { handle }: every capture allocates a native session state of
\* its own (abl_link_create_session_state), so two SessionState values name
\* the same native state only when they are the same value.
same_handle_aliased(i, j) == TRUE

same_handle(i, j) == i = j

\* A &mut self method of SessionState: the native call rewrites the session
\* state behind self.handle, to c, and touches nothing else.
Mutate(i, c) ==
    /\ CallerAvailable
    /\ Usable(i)
    /\ snaps' = [j \in SnapIds |-> IF same_handle(i, j) THEN c ELSE snaps[j]]
    /\ UNCHANGED <<inEngine, tokens, enabled, startStopSync, session>>
    /\ UNCHANGED lifeVars
    /\ UNCHANGED cbVars
    /\ UNCHANGED <<pc, useAfterDestroy>>
    /\ UNCHANGED envVars

session_state_set_tempo(i, bpm, time) ==
    Mutate(i, set_tempo(snaps[i], bpm, time))

session_state_request_beat_at_time(i, beat, time, quantum) ==
    Mutate(i, request_beat_at_time(snaps[i], beat, time, quantum))

session_state_force_beat_at_time(i, beat, time, quantum) ==
    Mutate(i, force_beat_at_time(snaps[i], beat, time, quantum))

session_state_set_transport_state_at(i, state, time) ==
    Mutate(i, set_transport_state_at(snaps[i], state, time))

session_state_start_transport_at(i, time) ==
    Mutate(i, start_transport_at(snaps[i], time))

session_state_stop_transport_at(i, time) ==
    Mutate(i, stop_transport_at(snaps[i], time))

session_state_request_beat_at_transport_state_time(i, beat, quantum) ==
    Mutate(i, request_beat_at_transport_state_time(snaps[i], beat, quantum))

session_state_start_transport_and_request_beat_at(i, beat, time, quantum) ==
    Mutate(i, start_transport_and_request_beat_at(snaps[i], beat, time, quantum))

\* ------------------------------------------- a second Link in the process

\* Link::new called once more: another Link with its own native instance and
\* its own session.
second_link_new ==
    /\ CallerAvailable
    /\ link = "alive"
    /\ linkB.state = "none"
    /\ linkB' = [linkB EXCEPT !.state = "alive"]
    /\ UNCHANGED <<errReturned, numPeers, envRest>>
    /\ UNCHANGED accVars
    /\ UNCHANGED lifeVars
    /\ UNCHANGED cbVars
    /\ UNCHANGED <<pc, useAfterDestroy>>

\* commit_app_session_state passes self.handle and state.handle: the session
\* of a Link other than self is out of the call's reach.
session_of_other_link_replaced(sess, c) == TimelineOf(c)

session_of_other_link(sess, c) == sess

\* The second Link's commit_app_session_state(&state), with a SessionState
\* captured from the first Link: the argument type is &SessionState, whatever
\* Link the value came from.
second_link_commit_app_session_state(i) ==
    /\ CallerAvailable
    /\ linkB.state = "alive"
    /\ Usable(i)
    /\ linkB' = [linkB EXCEPT
                    !.session = abl_link_commit_session_state(@, snaps[i]),
                    !.received = TRUE]
    /\ session' = session_of_other_link(session, snaps[i])
    /\ UNCHANGED <<inEngine, tokens, enabled, startStopSync, snaps>>
    /\ UNCHANGED <<errReturned, numPeers, envRest>>
    /\ UNCHANGED lifeVars
    /\ UNCHANGED cbVars
    /\ UNCHANGED <<pc, useAfterDestroy>>

\* impl Drop for SessionState: the number of abl_link_destroy_session_state
\* calls issued for the handle once the value has gone out of scope.
drop_without_destroy(n) == n

drop_destroys_session_state(n) == n + 1

drop_session_state(i) ==
    /\ CallerAvailable
    /\ Usable(i)
    /\ snaps' = [snaps EXCEPT ![i] =
                    [NoSnapshot EXCEPT !.state = "dropped",
                                       !.path = snaps[i].path,
                                       !.committed = snaps[i].committed,
                                       !.destroys = drop_destroys_session_state(snaps[i].destroys)]]
    /\ UNCHANGED <<inEngine, tokens, enabled, startStopSync, session>>
    /\ UNCHANGED lifeVars
    /\ UNCHANGED cbVars
    /\ UNCHANGED <<pc, useAfterDestroy>>
    /\ UNCHANGED envVars

\* ------------------------------------------------------- specifications

Next ==
    \/ \E ok \in BOOLEAN : new(ok)
    \/ drop_begin
    \/ drop_step
    \/ \E t \in AppThreads, b \in BOOLEAN : set_enabled(t, b)
    \/ \E t \in AppThreads, b \in BOOLEAN : set_transport_sync_enabled(t, b)
    \/ \E t \in AppThreads : query(t)
    \/ \E t \in AppThreads, ok \in BOOLEAN : capture_app_session_state(t, ok)
    \/ \E t \in AppThreads : capture_app_session_state_return(t)
    \/ \E t \in AppThreads, i \in SnapIds : commit_app_session_state(t, i)
    \/ \E t \in AppThreads : commit_app_session_state_return(t)
    \/ \E t \in AppThreads : bind_audio_thread(t)
    \/ \E t \in AppThreads : drop_audio_link(t)
    \/ \E t \in AppThreads : audio_query(t)
    \/ \E t \in AppThreads, b \in BOOLEAN : audio_set_transport_sync_enabled(t, b)
    \/ \E t \in AppThreads, ok \in BOOLEAN : capture_session_state(t, ok)
    \/ \E t \in AppThreads : capture_session_state_return(t)
    \/ \E t \in AppThreads, i \in SnapIds : commit_session_state(t, i)
    \/ \E t \in AppThreads : commit_session_state_return(t)
    \/ \E i \in SnapIds, bpm \in Tempos : session_state_set_tempo(i, bpm, 0)
    \/ \E i \in SnapIds : drop_session_state(i)

Spec == Init /\ [][Next]_vars

NextCb ==
    \/ \E ok \in BOOLEAN : new(ok)
    \/ drop_begin
    \/ drop_step
    \/ \E e \in EngineThreads, s \in Slots : trampoline_lock(e, s)
    \/ \E e \in EngineThreads : trampoline_dispatch(e)
    \/ \E e \in EngineThreads, o \in {"returned", "panicked"} : trampoline_call(e, o)
    \/ \E t \in Registrars, cb \in CallbackIds : set_num_peers_callback(t, cb)
    \/ \E t \in Registrars : clear_num_peers_callback(t)
    \/ \E t \in Registrars, cb \in CallbackIds : set_tempo_callback(t, cb)
    \/ \E t \in Registrars : clear_tempo_callback(t)
    \/ \E t \in Registrars, cb \in CallbackIds : set_transport_state_callback(t, cb)
    \/ \E t \in Registrars : clear_transport_state_callback(t)
    \/ \E t \in Registrars : register_trampoline(t)
    \/ \E t \in Registrars : panic_unwound(t)

SpecCb == Init /\ [][NextCb]_vars

\* A Link whose callbacks are registered and which is then moved, while the
\* engine goes on delivering notifications.
NextMove ==
    \/ new(TRUE)
    \/ \E t \in Registrars, cb \in CallbackIds : set_num_peers_callback(t, cb)
    \/ \E t \in Registrars : clear_num_peers_callback(t)
    \/ \E t \in Registrars, cb \in CallbackIds : set_tempo_callback(t, cb)
    \/ \E t \in Registrars : register_trampoline(t)
    \/ \E o \in {"stale", "crash"} : move_link(o)
    \/ \E e \in EngineThreads, s \in Slots : trampoline_lock(e, s)
    \/ \E e \in EngineThreads : trampoline_dispatch(e)
    \/ \E e \in EngineThreads : trampoline_call(e, "returned")
    \/ \E e \in EngineThreads, s \in Slots, o \in {"stale", "crash"} :
           trampoline_dangling(e, s, o)

SpecMove == Init /\ [][NextMove]_vars

\* Tokens bound and released over and over on one Link; the session state
\* changes only through commits made with a token.
NextRebind ==
    \/ new(TRUE)
    \/ \E t \in AppThreads : bind_audio_thread(t)
    \/ \E t \in AppThreads : drop_audio_link(t)
    \/ \E t \in AppThreads : capture_session_state(t, TRUE)
    \/ \E t \in AppThreads : capture_session_state_return(t)
    \/ \E i \in SnapIds, bpm \in Tempos : session_state_set_tempo(i, bpm, 0)
    \/ \E t \in AppThreads, i \in SnapIds : commit_session_state(t, i)
    \/ \E t \in AppThreads : commit_session_state_return(t)
    \/ \E t \in AppThreads, b \in BOOLEAN : set_enabled(t, b)
    \/ \E t \in AppThreads : capture_app_session_state(t, TRUE)
    \/ \E t \in AppThreads : capture_app_session_state_return(t)

SpecRebind == Init /\ [][NextRebind]_vars

\* Callbacks that register or clear on their own slot while they run.  Every
\* thread that can take a step eventually takes one, and every user callback
\* that can return does.
NextReenter ==
    \/ new(TRUE)
    \/ \E t \in Registrars, cb \in CallbackIds : set_num_peers_callback(t, cb)
    \/ \E t \in Registrars, cb \in CallbackIds : set_tempo_callback(t, cb)
    \/ \E t \in Registrars : clear_tempo_callback(t)
    \/ \E t \in Registrars : register_trampoline(t)
    \/ \E e \in EngineThreads, s \in Slots : trampoline_lock(e, s)
    \/ \E e \in EngineThreads : trampoline_dispatch(e)
    \/ \E e \in EngineThreads : trampoline_call(e, "returned")
    \/ \E e \in EngineThreads, m \in {"set_callback", "clear_callback"} :
           callback_calls(e, m)
    \/ \E e \in EngineThreads, o \in {"deadlock", "panic"} : callback_lock(e, o)

FairReenter ==
    /\ \A t \in Registrars : WF_vars(register_trampoline(t))
    /\ \A e \in EngineThreads :
          /\ WF_vars(trampoline_dispatch(e))
          /\ WF_vars(trampoline_call(e, "returned"))
          /\ WF_vars(\E o \in {"deadlock", "panic"} : callback_lock(e, o))

SpecReenter == Init /\ [][NextReenter]_vars /\ FairReenter

\* Every kind of operation of the Link, tokens, engine notifications and the
\* drop of the Link side by side.
NextExclusive ==
    \/ new(TRUE)
    \/ drop_begin
    \/ drop_step
    \/ \E t \in Registrars, b \in BOOLEAN : set_enabled(t, b)
    \/ \E t \in Registrars, b \in BOOLEAN : set_transport_sync_enabled(t, b)
    \/ \E t \in Registrars : query(t)
    \/ \E t \in Registrars : capture_app_session_state(t, TRUE)
    \/ \E t \in Registrars : capture_app_session_state_return(t)
    \/ \E t \in Registrars, i \in SnapIds : commit_app_session_state(t, i)
    \/ \E t \in Registrars : commit_app_session_state_return(t)
    \/ \E t \in Registrars, cb \in CallbackIds : set_tempo_callback(t, cb)
    \/ \E t \in Registrars : clear_tempo_callback(t)
    \/ \E t \in Registrars : register_trampoline(t)
    \/ \E t \in AppThreads : bind_audio_thread(t)
    \/ \E t \in AppThreads : drop_audio_link(t)
    \/ \E t \in AppThreads : audio_query(t)
    \/ \E e \in EngineThreads, s \in Slots : trampoline_lock(e, s)
    \/ \E e \in EngineThreads : trampoline_dispatch(e)
    \/ \E e \in EngineThreads : trampoline_call(e, "returned")

SpecExclusive == Init /\ [][NextExclusive]_vars

\* Transport-state notifications delivered with the value the engine reports.
NextNotify ==
    \/ new(TRUE)
    \/ \E t \in Registrars, cb \in CallbackIds : set_transport_state_callback(t, cb)
    \/ \E t \in Registrars : clear_transport_state_callback(t)
    \/ \E t \in Registrars : register_trampoline(t)
    \/ \E e \in EngineThreads : trampoline_lock(e, "start_stop_callback")
    \/ \E e \in EngineThreads, is_playing \in BOOLEAN : start_stop_dispatch(e, is_playing)
    \/ \E e \in EngineThreads, o \in {"returned", "panicked"} : trampoline_call(e, o)
    \/ \E t \in Registrars : panic_unwound(t)

SpecNotify == Init /\ [][NextNotify]_vars

\* Snapshots captured, edited with every mutation method, committed and
\* dropped on one Link.  Beats are in units of 1/120 beat: 120 is beat 1.0 and
\* 480 a quantum of four beats.
MutBeats == {120}

Quanta == {480}

NextMut ==
    \/ new(TRUE)
    \/ \E t \in Registrars : capture_app_session_state(t, TRUE)
    \/ \E t \in Registrars : capture_app_session_state_return(t)
    \/ \E t \in Registrars, i \in SnapIds : commit_app_session_state(t, i)
    \/ \E t \in Registrars : commit_app_session_state_return(t)
    \/ \E i \in SnapIds, bpm \in Tempos : session_state_set_tempo(i, bpm, 0)
    \/ \E i \in SnapIds, beat \in MutBeats, q \in Quanta :
           session_state_request_beat_at_time(i, beat, 0, q)
    \/ \E i \in SnapIds, beat \in MutBeats, q \in Quanta :
           session_state_force_beat_at_time(i, beat, 0, q)
    \/ \E i \in SnapIds, st \in TransportStates :
           session_state_set_transport_state_at(i, st, 0)
    \/ \E i \in SnapIds : session_state_start_transport_at(i, 0)
    \/ \E i \in SnapIds : session_state_stop_transport_at(i, 0)
    \/ \E i \in SnapIds, beat \in MutBeats, q \in Quanta :
           session_state_request_beat_at_transport_state_time(i, beat, q)
    \/ \E i \in SnapIds, beat \in MutBeats, q \in Quanta :
           session_state_start_transport_and_request_beat_at(i, beat, 0, q)
    \/ \E i \in SnapIds : drop_session_state(i)

SpecMut == Init /\ [][NextMut]_vars

\* The transport round trip: snapshots are captured, given a transport state
\* and time, committed and captured again, with start/stop sync switched on
\* and off.  The times include one before the clock's origin.
TransportTimes == {-1, 3}

NextTransport ==
    \/ new(TRUE)
    \/ \E t \in Registrars, b \in BOOLEAN : set_transport_sync_enabled(t, b)
    \/ \E t \in Registrars : capture_app_session_state(t, TRUE)
    \/ \E t \in Registrars : capture_app_session_state_return(t)
    \/ \E t \in Registrars, i \in SnapIds : commit_app_session_state(t, i)
    \/ \E t \in Registrars : commit_app_session_state_return(t)
    \/ \E i \in SnapIds, st \in TransportStates, time \in TransportTimes :
           session_state_set_transport_state_at(i, st, time)
    \/ \E i \in SnapIds : drop_session_state(i)

SpecTransport == Init /\ [][NextTransport]_vars

\* A Link just created, with one snapshot in scope whose content is drawn
\* from C: the state after Link::new and one capture_app_session_state.
InitSnapshot(C) ==
    /\ link = "alive"
    /\ dropPos = 0
    /\ engineState = "alive"
    /\ destroyCount = 0
    /\ useAfterDestroy = FALSE
    /\ storage = "valid"
    /\ slot = [s \in Slots |-> new_callback_field(s)]
    /\ mutex = [s \in Slots |-> 0]
    /\ poisoned = [s \in Slots |-> FALSE]
    /\ registered = [s \in Slots |-> FALSE]
    /\ requested = [s \in Slots |-> 0]
    /\ epc = [e \in EngineThreads |-> EIdle]
    /\ process = "running"
    /\ pc = [t \in AppThreads |-> Idle]
    /\ inEngine = [t \in AppThreads |-> "none"]
    /\ tokens = {}
    /\ enabled = FALSE
    /\ startStopSync = FALSE
    /\ session = InitialTimeline
    /\ snaps \in {[i \in SnapIds |-> IF i = 1 THEN c ELSE NoSnapshot] : c \in C}
    /\ errReturned = FALSE
    /\ numPeers = 0
    /\ linkB = [state |-> "none", session |-> InitialTimeline, received |-> FALSE]
    /\ timeValues = NoTimeValues
    /\ linkAddr = 1
    /\ context = [s \in Slots |-> 0]
    /\ danglingDeref = FALSE
    /\ received = NothingReceived

\* Ok(SessionState { handle }) of a capture on the application path.
Captured(sess, peers) ==
    abl_link_capture_session_state([NoSnapshot EXCEPT !.path = "Link"], sess, peers)

\* The transport setters applied with every representable Instant.
InitCast == InitSnapshot({Captured(InitialTimeline, 0)})

NextCast ==
    \/ \E i \in SnapIds, st \in TransportStates, time \in Instants :
           session_state_set_transport_state_at(i, st, time)
    \/ \E i \in SnapIds, time \in Instants : session_state_start_transport_at(i, time)
    \/ \E i \in SnapIds, time \in Instants : session_state_stop_transport_at(i, time)

SpecCast == InitCast /\ [][NextCast]_vars

\* Two Links in one process: snapshots are captured from the first, edited,
\* and committed through either.
NextTwo ==
    \/ new(TRUE)
    \/ second_link_new
    \/ \E t \in Registrars : capture_app_session_state(t, TRUE)
    \/ \E t \in Registrars : capture_app_session_state_return(t)
    \/ \E t \in Registrars, i \in SnapIds : commit_app_session_state(t, i)
    \/ \E t \in Registrars : commit_app_session_state_return(t)
    \/ \E i \in SnapIds, bpm \in Tempos : session_state_set_tempo(i, bpm, 0)
    \/ \E i \in SnapIds : second_link_commit_app_session_state(i)
    \/ \E i \in SnapIds : drop_session_state(i)

SpecTwo == Init /\ [][NextTwo]_vars

\* A Link that is enabled and given callbacks, then borrowed by an AudioLink
\* on which every method of the token is called.
NextToken ==
    \/ new(TRUE)
    \/ \E t \in Registrars, b \in BOOLEAN : set_enabled(t, b)
    \/ \E t \in Registrars, cb \in CallbackIds : set_num_peers_callback(t, cb)
    \/ \E t \in Registrars, cb \in CallbackIds : set_tempo_callback(t, cb)
    \/ \E t \in Registrars : clear_tempo_callback(t)
    \/ \E t \in Registrars : register_trampoline(t)
    \/ \E t \in AppThreads : bind_audio_thread(t)
    \/ \E t \in AppThreads : drop_audio_link(t)
    \/ \E t \in AppThreads : audio_query(t)
    \/ \E t \in AppThreads, b \in BOOLEAN : audio_set_transport_sync_enabled(t, b)
    \/ \E t \in AppThreads : capture_session_state(t, TRUE)
    \/ \E t \in AppThreads : capture_session_state_return(t)
    \/ \E t \in AppThreads, i \in SnapIds : commit_session_state(t, i)
    \/ \E t \in AppThreads : commit_session_state_return(t)

SpecToken == Init /\ [][NextToken]_vars

\* request_beat_at_time on one snapshot, captured alone or among peers, at
\* either tempo and with the timeline at several offsets.  Beats are in units
\* of 1/120 beat: the quanta are 3 and 4 beats, the times reach before the
\* clock's origin.
BeatValues == {-120, 0, 40, 120, 300}

BeatTimes == {-2, -1, 0, 1, 3}

BeatQuanta == {360, 480}

BeatShifts == {-120, 0, 60}

InitBeat ==
    InitSnapshot({[Captured([InitialTimeline EXCEPT !.tempo = bpm, !.shift = sh], 0)
                     EXCEPT !.peers = p] :
                  bpm \in Tempos, sh \in BeatShifts, p \in BOOLEAN})

NextBeat ==
    \/ \E i \in SnapIds, beat \in BeatValues, at \in BeatTimes, q \in BeatQuanta :
           session_state_request_beat_at_time(i, beat, at, q)
    \/ \E i \in SnapIds, bpm \in Tempos : session_state_set_tempo(i, bpm, 0)

SpecBeat == InitBeat /\ [][NextBeat]_vars

\* set_tempo on one snapshot with pivots before, at and after the clock's
\* origin, for as long as the beat at the origin stays within MaxBeat.
InBeatRange(c) == -MaxBeat <= c.shift /\ c.shift <= MaxBeat

NextTempo ==
    \E i \in SnapIds, bpm \in Tempos, pivot \in BeatTimes :
       /\ InBeatRange(set_tempo(snaps[i], bpm, pivot))
       /\ session_state_set_tempo(i, bpm, pivot)

SpecTempo == InitBeat /\ [][NextTempo]_vars

\* Two peers with quanta of 4 and 3 beats read the phase of one timeline
\* whose beat is moved over 24 beats before and 50 half-beats after zero.
PeerQuanta == {360, 480}

QuantumBeats == {60 * i : i \in -24 .. 50}

QuantumTimes == {0, 1}

NextQuantum ==
    \E i \in SnapIds, beat \in QuantumBeats, q \in PeerQuanta :
       session_state_force_beat_at_time(i, beat, 0, q)

SpecQuantum == InitBeat /\ [][NextQuantum]_vars

\* Quantized launch on one snapshot: the transport target is set, before and
\* after the clock's origin, and a beat is requested at the transport time.
LaunchTimes == {-2, 1}

NextLaunch ==
    \/ \E i \in SnapIds, st \in TransportStates, time \in LaunchTimes :
           session_state_set_transport_state_at(i, st, time)
    \/ \E i \in SnapIds, beat \in BeatValues, q \in BeatQuanta :
           session_state_request_beat_at_transport_state_time(i, beat, q)

SpecLaunch == InitBeat /\ [][NextLaunch]_vars

\* start_transport_and_request_beat_at alone, on snapshots playing or
\* stopped beforehand.
StartTimes == {-2, 1, 3}

NextStart ==
    \E i \in SnapIds, beat \in BeatValues, time \in StartTimes, q \in BeatQuanta :
       session_state_start_transport_and_request_beat_at(i, beat, time, q)

SpecStart == InitBeat /\ [][NextStart]_vars

(***************************************************************************)
(* Time values (time.rs): Instant and Duration are newtypes over i64       *)
(* microseconds.  The 64-bit integer is scaled to TimeBits bits; the       *)
(* conversion factors keep their real values.  Every arithmetic operator   *)
(* of time.rs is the plain operator of i64: when the exact result leaves   *)
(* the range, a build with overflow checks panics and a build without      *)
(* them wraps; division by zero and MIN / -1 panic in every build.         *)
(***************************************************************************)
TimeBits == 22

MICROS_PER_MILLI == 1000

MICROS_PER_SEC == 1000000

I64_MAX == 2^(TimeBits - 1) - 1

I64_MIN == -(2^(TimeBits - 1))

InRange(x) == I64_MIN <= x /\ x <= I64_MAX

\* The two's-complement value an out-of-range result wraps to.
wrapping(x) == ((x - I64_MIN) % 2^TimeBits) + I64_MIN

\* The operation did not return: the thread panicked.
Panic == [ok |-> FALSE, val |-> 0]

Returned(x) == [ok |-> TRUE, val |-> x]

\* Outcome of an i64 operator whose exact result is x.
overflowing(x, checks) ==
    IF InRange(x) THEN Returned(x)
    ELSE IF checks THEN Panic ELSE Returned(wrapping(x))

\* i64 `/` truncates toward zero.
truncating_div(x, y) ==
    LET ax == IF x < 0 THEN -x ELSE x
        ay == IF y < 0 THEN -y ELSE y
        q  == ax \div ay
    IN  IF (x < 0) = (y < 0) THEN q ELSE -q

i64_div(x, y) ==
    IF y = 0 THEN Panic
    ELSE IF x = I64_MIN /\ y = -1 THEN Panic
    ELSE Returned(truncating_div(x, y))

\* self.0 + micros
add_micros(self, micros, checks) == overflowing(self + micros, checks)

\* self.0 - micros
sub_micros(self, micros, checks) == overflowing(self - micros, checks)

add_millis_as_secs(self, millis, checks) ==
    LET m == overflowing(millis * MICROS_PER_SEC, checks)
    IN  IF m.ok THEN overflowing(self + m.val, checks) ELSE Panic

\* self.0 + millis * 1_000
add_millis(self, millis, checks) ==
    LET m == overflowing(millis * MICROS_PER_MILLI, checks)
    IN  IF m.ok THEN overflowing(self + m.val, checks) ELSE Panic

\* self.0 - millis * 1_000
sub_millis(self, millis, checks) ==
    LET m == overflowing(millis * MICROS_PER_MILLI, checks)
    IN  IF m.ok THEN overflowing(self - m.val, checks) ELSE Panic

\* self.0 + secs * 1_000_000
add_secs(self, secs, checks) ==
    LET m == overflowing(secs * MICROS_PER_SEC, checks)
    IN  IF m.ok THEN overflowing(self + m.val, checks) ELSE Panic

\* self.0 - secs * 1_000_000
sub_secs(self, secs, checks) ==
    LET m == overflowing(secs * MICROS_PER_SEC, checks)
    IN  IF m.ok THEN overflowing(self - m.val, checks) ELSE Panic

\* Duration::from_millis: millis * 1_000
from_millis(millis, checks) == overflowing(millis * MICROS_PER_MILLI, checks)

\* Duration::from_secs: secs * 1_000_000
from_secs(secs, checks) == overflowing(secs * MICROS_PER_SEC, checks)

\* Duration::as_millis: self.0 / 1_000
as_millis(self) == i64_div(self, MICROS_PER_MILLI)

\* Duration::as_secs: self.0 / 1_000_000
as_secs(self) == i64_div(self, MICROS_PER_SEC)

\* Duration::abs: self.0.abs()
abs(self, checks) == overflowing(IF self < 0 THEN -self ELSE self, checks)

\* Duration + Duration
Duration_add(self, rhs, checks) == overflowing(self + rhs, checks)

\* Duration - Duration
Duration_sub(self, rhs, checks) == overflowing(self - rhs, checks)

\* Duration * i64
Duration_mul(self, rhs, checks) == overflowing(self * rhs, checks)

\* Duration / i64
Duration_div(self, rhs) == i64_div(self, rhs)

\* Instant + Duration
Instant_add(self, rhs, checks) == overflowing(self + rhs, checks)

\* Instant - Duration
Instant_sub(self, rhs, checks) == overflowing(self - rhs, checks)

\* Instant - Instant, a Duration
Instant_sub_Instant(self, rhs, checks) == overflowing(self - rhs, checks)

\* i64::try_from(rhs.as_micros()).unwrap_or(i64::MAX) of a std Duration
std_micros(rhs) == IF rhs > I64_MAX THEN I64_MAX ELSE rhs

\* Instant + std::time::Duration
Instant_add_StdDuration(self, rhs, checks) == overflowing(self + std_micros(rhs), checks)

\* Instant - std::time::Duration
Instant_sub_StdDuration(self, rhs, checks) == overflowing(self - std_micros(rhs), checks)

\* The derived ordering of Instant compares the one field.
Instant_lt(self, other) == self < other

\* No Link is needed for time arithmetic: the operands are drawn, and the
\* build is one with (checks) or without overflow checks.
InitTime ==
    /\ link = "none"
    /\ dropPos = 0
    /\ engineState = "none"
    /\ destroyCount = 0
    /\ useAfterDestroy = FALSE
    /\ storage = "none"
    /\ slot = [s \in Slots |-> 0]
    /\ mutex = [s \in Slots |-> 0]
    /\ poisoned = [s \in Slots |-> FALSE]
    /\ registered = [s \in Slots |-> FALSE]
    /\ requested = [s \in Slots |-> 0]
    /\ epc = [e \in EngineThreads |-> EIdle]
    /\ process = "running"
    /\ pc = [t \in AppThreads |-> Idle]
    /\ inEngine = [t \in AppThreads |-> "none"]
    /\ tokens = {}
    /\ enabled = FALSE
    /\ startStopSync = FALSE
    /\ session = InitialTimeline
    /\ snaps = [i \in SnapIds |-> NoSnapshot]
    /\ errReturned = FALSE
    /\ numPeers = 0
    /\ linkB = [state |-> "none", session |-> InitialTimeline, received |-> FALSE]
    /\ timeValues \in [a : {I64_MIN, -1500, 2500, I64_MAX},
                       b : {-1500, I64_MAX},
                       d : {I64_MIN, -3, 0, 4000},
                       k : {-1, 0, 3},
                       n : {-1, 2, 2100},
                       std : {0, 700, I64_MAX + 5},
                       checks : BOOLEAN, result : {NoResult}]
    /\ linkAddr = 1
    /\ context = [s \in Slots |-> 0]
    /\ danglingDeref = FALSE
    /\ received = NothingReceived

\* The operation op ended with the given outcome.
Apply(op, outcome) ==
    /\ timeValues' = [timeValues EXCEPT
                        !.result = [op |-> op, ok |-> outcome.ok, val |-> outcome.val]]
    /\ UNCHANGED <<lifeVars, cbVars, accVars, pc, useAfterDestroy,
                   errReturned, numPeers, linkB,
                   linkAddr, context, danglingDeref, received>>

\* One step applies one operation of time.rs to the operands in hand.
NextTime ==
    \/ Apply("add_micros", add_micros(timeValues.a, timeValues.k, timeValues.checks))
    \/ Apply("sub_micros", sub_micros(timeValues.a, timeValues.k, timeValues.checks))
    \/ Apply("add_millis", add_millis(timeValues.a, timeValues.n, timeValues.checks))
    \/ Apply("sub_millis", sub_millis(timeValues.a, timeValues.n, timeValues.checks))
    \/ Apply("add_secs", add_secs(timeValues.a, timeValues.n, timeValues.checks))
    \/ Apply("sub_secs", sub_secs(timeValues.a, timeValues.n, timeValues.checks))
    \/ Apply("from_millis", from_millis(timeValues.n, timeValues.checks))
    \/ Apply("from_secs", from_secs(timeValues.n, timeValues.checks))
    \/ Apply("as_millis", as_millis(timeValues.d))
    \/ Apply("as_secs", as_secs(timeValues.d))
    \/ Apply("abs", abs(timeValues.d, timeValues.checks))
    \/ Apply("Duration_add", Duration_add(timeValues.d, timeValues.k, timeValues.checks))
    \/ Apply("Duration_sub", Duration_sub(timeValues.d, timeValues.k, timeValues.checks))
    \/ Apply("Duration_mul", Duration_mul(timeValues.d, timeValues.k, timeValues.checks))
    \/ Apply("Duration_div", Duration_div(timeValues.d, timeValues.k))
    \/ Apply("Instant_add", Instant_add(timeValues.a, timeValues.d, timeValues.checks))
    \/ Apply("Instant_sub", Instant_sub(timeValues.a, timeValues.d, timeValues.checks))
    \/ Apply("Instant_sub_Instant", Instant_sub_Instant(timeValues.a, timeValues.b, timeValues.checks))
    \/ Apply("Instant_add_StdDuration", Instant_add_StdDuration(timeValues.a, timeValues.std, timeValues.checks))
    \/ Apply("Instant_sub_StdDuration", Instant_sub_StdDuration(timeValues.a, timeValues.std, timeValues.checks))

SpecTime == InitTime /\ [][NextTime]_vars

\* ------------------------------- claims about access, engine and snapshots

\* C1: at most one AudioLink is alive at any time, and while one is alive no
\* commit_app_session_state is in progress on the Link (none started before
\* the bind is still running, and none can start until the release).
C1_RealtimeExclusive ==
    /\ Cardinality(tokens) <= 1
    /\ tokens # {} =>
         \A t \in AppThreads :
            /\ pc[t].op # "commit_app_session_state"
            /\ inEngine[t] # "abl_link_commit_app_session_state"
            /\ ~CanStart(t, "commit_app_session_state")

\* A token is alive on one thread while the other thread is idle and holds a
\* snapshot it could commit if the Link were not borrowed.
C1_Witness ==
    \E t, u \in AppThreads :
        /\ t # u
        /\ t \in tokens
        /\ pc[u].op = "idle"
        /\ \E i \in SnapIds : Usable(i) /\ snaps[i].path = "Link"

\* C2: a capture / commit issued through an AudioLink runs the engine's audio
\* entry point, one issued on the Link runs the application entry point, and
\* no application-path capture / commit is in progress while a realtime-path
\* one is.
C2_EntryPointsSeparated ==
    /\ \A t \in AppThreads :
         /\ pc[t].op = "capture_session_state" =>
                inEngine[t] = "abl_link_capture_audio_session_state"
         /\ pc[t].op = "commit_session_state" =>
                inEngine[t] = "abl_link_commit_audio_session_state"
         /\ pc[t].op = "capture_app_session_state" =>
                inEngine[t] = "abl_link_capture_app_session_state"
         /\ pc[t].op = "commit_app_session_state" =>
                inEngine[t] = "abl_link_commit_app_session_state"
         /\ inEngine[t] \in AudioEntryPoints => t \in tokens
    /\ \A t, u \in AppThreads :
         ~(inEngine[t] \in AppEntryPoints /\ inEngine[u] \in AudioEntryPoints)

\* A realtime commit of a snapshot that was captured on the application path
\* is in progress.
C2_Witness ==
    \E t \in AppThreads :
        /\ inEngine[t] = "abl_link_commit_audio_session_state"
        /\ snaps[pc[t].snap].path = "Link"

\* C9: abl_link_destroy is issued exactly once for a created Link, at its
\* drop, and never for a failed creation; no engine call is in progress or
\* issued on the instance after it, and every engine call of a live Link
\* finds the instance alive.
C9_DestroyExactlyOnce ==
    /\ link \in {"none", "failed", "alive"} => destroyCount = 0
    /\ link = "dropped" => destroyCount = 1
    /\ destroyCount <= 1
    /\ link = "alive" => engineState = "alive"
    /\ ~useAfterDestroy
    /\ engineState # "alive" => \A t \in AppThreads : inEngine[t] = "none"

\* The Link has been dropped after captures and commits were made through it.
C9_Witness ==
    /\ link = "dropped"
    /\ engineState = "destroyed"
    /\ \E i \in SnapIds : snaps[i].committed

\* C10: a captured snapshot's native session state is destroyed exactly once,
\* when the SessionState goes out of scope, committed or not and whichever
\* path captured it; nothing is destroyed while the value is in scope, and no
\* call uses a snapshot that has been released.
C10_SnapshotReleasedOnce ==
    /\ \A i \in SnapIds :
         /\ snaps[i].state = "dropped" => snaps[i].destroys = 1
         /\ snaps[i].state # "dropped" => snaps[i].destroys = 0
    /\ \A t \in AppThreads :
         pc[t].snap # 0 =>
            /\ snaps[pc[t].snap].state \in {"raw", "live"}
            /\ snaps[pc[t].snap].destroys = 0

\* Two snapshots have gone out of scope: one captured on the application path
\* and committed, one captured through the AudioLink and never committed.
C10_Witness ==
    \E i, j \in SnapIds :
        /\ snaps[i].state = "dropped" /\ snaps[i].path = "Link" /\ snaps[i].committed
        /\ snaps[j].state = "dropped" /\ snaps[j].path = "AudioLink"
        /\ ~snaps[j].committed

\* ------------------------------------------------ claims about callbacks

InTrampoline(e) == epc[e].pc \in {"locked", "in_cb"}

Invoking(e, s) == epc[e].pc = "in_cb" /\ epc[e].slot = s

PanickedOps == {"set_panicked", "clear_panicked"}

\* C3: when the stored user callback panics inside the trampoline, the
\* trampoline still returns normally to the engine: the process keeps running
\* (the unwind never crosses the extern "C" boundary) and the slot's Mutex is
\* released -- it is held only by a thread that is still inside the trampoline
\* for that slot, never by one that has returned.
C3_FaultContained ==
    /\ process = "running"
    /\ \A s \in Slots :
         mutex[s] # 0 => InTrampoline(mutex[s]) /\ epc[mutex[s]].slot = s
    /\ \A s \in Slots :
         poisoned[s] => \A e \in EngineThreads : ~Invoking(e, s)

\* A callback has faulted, its trampoline call is over, the lock is free.
C3_Witness ==
    \E s \in Slots :
        /\ poisoned[s]
        /\ mutex[s] = 0
        /\ process = "running"
        /\ \A e \in EngineThreads : epc[e].pc = "idle"

\* C4 as stated: after a callback of a slot has faulted, a new callback can be
\* registered on that slot -- a set_*_callback call on the slot does not fail.
C4_Original ==
    \A t \in AppThreads :
        pc[t].op = "set_panicked" => ~poisoned[pc[t].slot]

\* C4 amended: after a callback of a slot has faulted, the slot's lock stays
\* poisoned and no new callback can be registered on it: every later step
\* leaves the faulted callback stored and the engine registration as it was,
\* no invocation runs on the slot, and the process keeps running.
C4_FaultedSlotStaysFaulted ==
    [][\A s \in Slots :
          poisoned[s] =>
            /\ poisoned'[s]
            /\ slot[s] # 0
            /\ slot'[s] = slot[s]
            /\ registered'[s] = registered[s]
            /\ \A e \in EngineThreads : ~Invoking(e, s)'
            /\ process' = "running"]_vars

\* A registration was attempted on a faulted slot and panicked in the caller.
C4_Witness ==
    \E t \in AppThreads :
        /\ pc[t].op = "set_panicked"
        /\ poisoned[pc[t].slot]
        /\ slot[pc[t].slot] # 0

\* C5: a set_*_callback / clear_*_callback call panics in its caller exactly
\* when the slot's lock is poisoned; the failed call changes neither the stored
\* callbacks nor the engine registrations; an engine notification on a
\* poisoned slot raises nothing: the trampoline returns and the process runs on.
C5_PoisonReportedAtRegistration ==
    [][/\ \A t \in AppThreads :
            (pc[t].op = "idle" /\ pc'[t].op \in PanickedOps \cup {"set_callback"}) =>
              /\ poisoned[pc'[t].slot] <=> pc'[t].op \in PanickedOps
              /\ pc'[t].op \in PanickedOps =>
                    slot' = slot /\ registered' = registered /\ poisoned' = poisoned
       /\ \A s \in Slots :
            (poisoned[s] /\ slot'[s] # slot[s]) => FALSE
       /\ \A e \in EngineThreads :
            (epc[e].pc = "locked" /\ poisoned[epc[e].slot] /\ epc'[e] # epc[e]) =>
              epc'[e] = EIdle /\ process' = "running" /\ pc' = pc]_vars

\* A clear on a poisoned slot has panicked in the caller; the slot still holds
\* the callback and the engine still holds the trampoline.
C5_Witness ==
    \E t \in AppThreads :
        /\ pc[t].op = "clear_panicked"
        /\ poisoned[pc[t].slot]
        /\ slot[pc[t].slot] # 0
        /\ registered[pc[t].slot]

\* C6: while a callback of a slot is executing, the slot still stores that
\* callback (it is neither replaced, cleared nor dropped) and the executing
\* thread holds the slot's Mutex, so a set / clear takes effect only after the
\* invocation has returned.
C6_InvocationExcludesReplacement ==
    \A e \in EngineThreads :
        epc[e].pc = "in_cb" =>
            /\ slot[epc[e].slot] = epc[e].cb
            /\ epc[e].cb # 0
            /\ mutex[epc[e].slot] = e

\* An invocation is in flight while an application thread is inside
\* set_*_callback for the same slot (past its store).
C6_Witness ==
    \E e \in EngineThreads, t \in AppThreads :
        /\ epc[e].pc = "in_cb"
        /\ pc[t].op = "set_callback"
        /\ pc[t].slot = epc[e].slot

\* What a notification that has taken the lock of slot s does next.
Delivers(e, c) ==
    IF c # 0
    THEN epc'[e] = [pc |-> "in_cb", slot |-> epc[e].slot, cb |-> c]
    ELSE epc'[e] = EIdle

\* C7 as stated: once set_X_callback(f) has returned, every later engine
\* notification for slot X invokes f; once clear_X_callback has returned, a
\* notification invokes nothing.
C7_Original ==
    [][\A e \in EngineThreads :
          (epc[e].pc = "locked" /\ epc'[e] # epc[e]) =>
              Delivers(e, requested[epc[e].slot])]_vars

\* C7 amended: every engine notification for slot X on which no callback has
\* faulted invokes the callback of the latest set_X_callback that stored under
\* the lock (never an earlier one), and invokes nothing when the latest such
\* call was clear_X_callback; on a slot whose lock is poisoned it invokes
\* nothing.
C7_LatestRegistrationWins ==
    [][\A e \in EngineThreads :
          (epc[e].pc = "locked" /\ epc'[e] # epc[e]) =>
              Delivers(e, IF poisoned[epc[e].slot] THEN 0
                          ELSE requested[epc[e].slot])]_vars

\* One slot is running its stored callback while a notification has arrived
\* on another slot that was registered and then cleared.
C7_Witness ==
    \E e1, e2 \in EngineThreads :
        /\ epc[e1].pc = "in_cb"
        /\ epc[e1].cb = requested[epc[e1].slot]
        /\ epc[e2].pc = "locked"
        /\ registered[epc[e2].slot]
        /\ slot[epc[e2].slot] = 0

\* C8: dropping a Link blocks in abl_link_destroy until no callback invocation
\* is in flight; the engine is released first and the callback slots only
\* afterwards, so no trampoline invocation runs once the slots are released.
C8_DestroyBeforeStorage ==
    /\ \A e \in EngineThreads : InTrampoline(e) => storage = "valid"
    /\ storage = "freed" => engineState = "destroyed"
    /\ engineState = "destroyed" => \A e \in EngineThreads : epc[e].pc = "idle"

\* The Link is being dropped while a callback invocation is in flight.
C8_Witness ==
    /\ link = "dropping"
    /\ engineState = "alive"
    /\ \E e \in EngineThreads : epc[e].pc = "in_cb"

\* ------------------------------------------------ claims about failures

\* C11: when abl_link_create cannot allocate, Link::new hands back
\* Err(AllocationFailed) as a value: the process runs on, no Link and no engine
\* instance exist, no callback storage exists and abl_link_destroy is never
\* issued; when it succeeds, the handle it returns has three empty, unlocked,
\* unpoisoned callback slots and nothing registered with the engine.
C11_CreationFailureIsAValue ==
    /\ [](link = "failed" =>
            /\ process = "running"
            /\ engineState = "none"
            /\ storage = "none"
            /\ destroyCount = 0
            /\ ~useAfterDestroy)
    /\ [][(link = "none" /\ link' = "alive") =>
            \A s \in Slots :
                /\ slot'[s] = 0
                /\ mutex'[s] = 0
                /\ ~poisoned'[s]
                /\ ~registered'[s]]_vars

\* Link::new has failed; nothing was created and nothing destroyed.
C11_Witness ==
    /\ link = "failed"
    /\ engineState = "none"
    /\ destroyCount = 0

\* C12: a failed snapshot allocation is reported as an error value by the
\* capture call: the step in which the call returns the error calls no capture
\* entry point, produces no snapshot, and leaves the session, the callback
\* slots, the enabled flag and the transport-sync flag as they were; the
\* process keeps running.
C12_AllocationFailureIsAValue ==
    [][(errReturned' /\ ~errReturned) =>
          /\ inEngine' = inEngine
          /\ snaps' = snaps
          /\ session' = session
          /\ slot' = slot
          /\ enabled' = enabled
          /\ startStopSync' = startStopSync
          /\ link' = link
          /\ process' = "running"]_vars

\* A capture call has just failed while an earlier snapshot is still live.
C12_Witness ==
    /\ errReturned
    /\ link = "alive"
    /\ \E i \in SnapIds : snaps[i].state = "live"
    /\ \A t \in AppThreads : pc[t].op = "idle"

\* ------------------------------------------------- claims about snapshots

\* C13: a step in which a live snapshot's timeline is edited (any of the
\* mutation methods) changes that snapshot only: the session held by the
\* engine and every other snapshot are unchanged; and the session changes
\* only in the step in which a commit call returns, to the timeline of the
\* snapshot being committed.
C13_MutationIsLocal ==
    /\ [][\A i \in SnapIds :
            (/\ snaps[i].state = "live" /\ snaps'[i].state = "live"
             /\ TimelineOf(snaps'[i]) # TimelineOf(snaps[i]))
            => /\ session' = session
               /\ \A j \in SnapIds \ {i} : snaps'[j] = snaps[j]]_vars
    /\ [][session' # session =>
            \E t \in AppThreads :
               /\ pc[t].op \in {"commit_app_session_state", "commit_session_state"}
               /\ pc'[t].op = "idle"
               /\ session' = TimelineOf(snaps[pc[t].snap])]_vars

\* Two live snapshots of the same session differ from each other, one of them
\* differs from the session in tempo, beat mapping and transport, and nothing
\* has been committed.
C13_Witness ==
    /\ snaps[1].state = "live" /\ snaps[2].state = "live"
    /\ ~snaps[1].committed /\ ~snaps[2].committed
    /\ session = InitialTimeline
    /\ TimelineOf(snaps[1]) = InitialTimeline
    /\ snaps[2].tempo # session.tempo
    /\ snaps[2].shift # session.shift
    /\ snaps[2].playing # session.playing

\* A commit call of thread t returns in this step.
CommitReturns(t) ==
    /\ pc[t].op \in {"commit_app_session_state", "commit_session_state"}
    /\ pc'[t].op = "idle"

\* The capture call that fills snapshot i returns in this step.
CaptureReturns(i) == snaps[i].state = "raw" /\ snaps'[i].state = "live"

SameTransport(a, b) ==
    /\ transport_state(a) = transport_state(b)
    /\ transport_state_time(a) = transport_state_time(b)

\* C14: the transport state and time set on a snapshot survive commit and a
\* fresh capture, with start/stop sync enabled or disabled: a returning commit
\* leaves the session with the snapshot's transport state and time, nothing
\* but a returning commit changes them in the session, and a returning
\* capture hands the session's transport state and time to the new snapshot.
C14_TransportRoundTrip ==
    /\ [][\A t \in AppThreads :
            CommitReturns(t) => SameTransport(session', snaps[pc[t].snap])]_vars
    /\ [][~SameTransport(session', session) =>
            \E t \in AppThreads : CommitReturns(t)]_vars
    /\ [][\A i \in SnapIds :
            CaptureReturns(i) => SameTransport(snaps'[i], session)]_vars

\* With start/stop sync disabled, a snapshot set to Play at an instant before
\* the clock's origin has been committed, and a fresh capture reads Play at
\* that very instant.
C14_Witness ==
    /\ ~startStopSync
    /\ \E i, j \in SnapIds :
          /\ i # j
          /\ snaps[i].state = "live" /\ snaps[i].committed
          /\ snaps[j].state = "live" /\ ~snaps[j].committed
          /\ transport_state(snaps[i]) = "Play"
          /\ transport_state_time(snaps[i]) = -1
          /\ transport_state(snaps[j]) = "Play"
          /\ transport_state_time(snaps[j]) = -1
          /\ transport_state_time(session) = -1

\* C15: on every live snapshot, for every transport state and every
\* representable Instant t (negative ones included), right after
\* set_transport_state_at(state, t), start_transport_at(t) or
\* stop_transport_at(t) the snapshot reads back that state and exactly t; the
\* stored time is always a value of the unsigned type.
C15_TransportTimeExact ==
    \A i \in SnapIds :
       snaps[i].state = "live" =>
          /\ abl_link_time_for_is_playing(snaps[i]) \in Unsigneds
          /\ \A t \in Instants :
                /\ \A st \in TransportStates :
                      /\ transport_state(set_transport_state_at(snaps[i], st, t)) = st
                      /\ transport_state_time(set_transport_state_at(snaps[i], st, t)) = t
                /\ transport_state(start_transport_at(snaps[i], t)) = "Play"
                /\ transport_state_time(start_transport_at(snaps[i], t)) = t
                /\ transport_state(stop_transport_at(snaps[i], t)) = "Stop"
                /\ transport_state_time(stop_transport_at(snaps[i], t)) = t

\* A snapshot set to Play at the most negative Instant: the stored unsigned
\* time is the top bit alone, and it reads back as that Instant.
C15_Witness ==
    /\ snaps[1].state = "live"
    /\ transport_state(snaps[1]) = "Play"
    /\ abl_link_time_for_is_playing(snaps[1]) = 2^(InstantBits - 1)
    /\ transport_state_time(snaps[1]) = -(2^(InstantBits - 1))

\* A commit call is in progress on snapshot i.
Committing(i) ==
    \E t \in AppThreads :
       /\ pc[t].op \in {"commit_app_session_state", "commit_session_state"}
       /\ pc[t].snap = i

\* C16 as stated: a snapshot that has been committed is never committed again.
C16_Original == \A i \in SnapIds : Committing(i) => ~snaps[i].committed

\* C16 amended: commit borrows the snapshot and does not consume it.  A
\* snapshot can be committed again, with or without edits in between, for as
\* long as it is in scope: a commit is only ever in progress on a live
\* snapshot, a repeated commit again replaces the session with the snapshot's
\* current timeline, and the snapshot stays live afterwards.
C16_CommitBorrowsSnapshot ==
    /\ [](\A i \in SnapIds : Committing(i) => snaps[i].state = "live")
    /\ [][\A t \in AppThreads :
            (CommitReturns(t) /\ snaps[pc[t].snap].committed)
            => /\ session' = TimelineOf(snaps[pc[t].snap])
               /\ snaps'[pc[t].snap].state = "live"
               /\ TimelineOf(snaps'[pc[t].snap]) = TimelineOf(snaps[pc[t].snap])]_vars

\* A second commit in progress on a snapshot that was committed before and
\* edited since.
C16_Witness ==
    \E i \in SnapIds :
       /\ Committing(i)
       /\ snaps[i].committed
       /\ snaps[i].state = "live"
       /\ TimelineOf(snaps[i]) # session

\* C17 as stated: every snapshot here is captured from the first Link, so
\* the second Link never receives a commit.
C17_Original == ~linkB.received

\* C17 amended: a snapshot carries no tie to the Link it was captured from;
\* it becomes authoritative for whichever Link it is committed through.  A
\* commit through the second Link replaces that Link's session with the
\* timeline of a live snapshot and leaves the first Link's session and all
\* snapshots as they were; the first Link's session changes only by a commit
\* through the first Link.
C17_CommitTargetsReceiver ==
    /\ [][linkB' # linkB =>
            \/ /\ linkB.state = "none" /\ linkB'.state = "alive"
               /\ linkB'.session = linkB.session /\ ~linkB'.received
               /\ session' = session /\ snaps' = snaps
            \/ /\ linkB.state = "alive" /\ linkB'.state = "alive" /\ linkB'.received
               /\ \E i \in SnapIds : /\ snaps[i].state = "live"
                                      /\ linkB'.session = TimelineOf(snaps[i])
               /\ session' = session /\ snaps' = snaps]_vars
    /\ [][session' # session =>
            /\ linkB' = linkB
            /\ \E t \in AppThreads : CommitReturns(t)]_vars

\* A snapshot captured from the first Link and edited has been committed
\* through the second Link only: the second Link's session has its timeline,
\* the first Link's session is as created.
C17_Witness ==
    /\ linkB.received
    /\ session = InitialTimeline
    /\ linkB.session # InitialTimeline
    /\ \E i \in SnapIds : /\ snaps[i].state = "live" /\ snaps[i].path = "Link"
                           /\ ~snaps[i].committed
                           /\ linkB.session = TimelineOf(snaps[i])

\* ------------------------------------------------- claims about the token

\* C18: an AudioLink method, and the audio entry point it calls, only ever
\* runs on the thread that called bind_audio_thread and still holds the
\* AudioLink; starting one neither moves nor duplicates the token; and two
\* threads are inside methods of the Link at once only when no AudioLink is
\* alive.
C18_TokenStaysOnItsThread ==
    /\ [](\A t \in AppThreads :
            (pc[t].op \in AudioLinkMethods \/ inEngine[t] \in AudioEntryPoints)
            => t \in tokens)
    /\ [](\A t, u \in AppThreads :
            (t # u /\ BorrowsLink(t) /\ BorrowsLink(u)) => tokens = {})
    /\ [][\A t \in AppThreads :
            (pc[t].op = "idle" /\ pc'[t].op \in AudioLinkMethods)
            => (t \in tokens /\ tokens' = tokens)]_vars

\* The thread that bound the AudioLink is inside its capture_session_state
\* while another thread, which does not hold the token, is idle.
C18_Witness ==
    \E t, u \in AppThreads :
       /\ t # u
       /\ tokens = {t}
       /\ pc[t].op = "capture_session_state"
       /\ inEngine[t] = "abl_link_capture_audio_session_state"
       /\ pc[u].op = "idle"

\* C19: while an AudioLink is alive, whatever is called through it (the clock
\* and peer queries, the transport-sync setter, capture, commit, and its
\* release), no step changes the Link's enabled flag or the content of any of
\* the three callback slots.
C19_TokenLeavesFlagAndSlots ==
    [][tokens # {} => (enabled' = enabled /\ slot' = slot)]_vars

\* An AudioLink is alive on an enabled Link with two callbacks stored; through
\* it transport sync has been switched on and a snapshot captured and
\* committed.
C19_Witness ==
    /\ tokens # {}
    /\ enabled
    /\ slot["tempo_callback"] # 0
    /\ slot["num_peers_callback"] # 0
    /\ startStopSync
    /\ \E i \in SnapIds : /\ snaps[i].path = "AudioLink"
                           /\ snaps[i].state = "live"
                           /\ snaps[i].committed

\* ------------------------------------------------- claims about the timeline

\* Snapshot c after request_beat_at_time, and a fresh capture (taken with no
\* peers around) after that snapshot has been committed.
Requested(c, beat, at, q) == request_beat_at_time(c, beat, at, q)

FreshAfterCommit(c) == Captured(abl_link_commit_session_state(session, c), 0)

\* C20: on every live snapshot captured with no peers present, for every
\* beat, instant at and quantum: after request_beat_at_time(beat, at, q) the
\* snapshot maps at to beat, a fresh capture after committing it does the
\* same, and the beat at every instant, before or after at, has moved by one
\* and the same offset, in the snapshot and in the fresh capture alike.
C20_SoloRequestMapsBeat ==
    \A i \in SnapIds :
       (snaps[i].state = "live" /\ ~snaps[i].peers) =>
          \A beat \in BeatValues, at \in BeatTimes, q \in BeatQuanta :
             LET c == snaps[i]
                 d == Requested(c, beat, at, q)
                 f == FreshAfterCommit(d)
                 offset == beat - beat_at_time(c, at, q)
             IN  /\ beat_at_time(d, at, q) = beat
                 /\ beat_at_time(f, at, q) = beat
                 /\ \A t \in BeatTimes :
                       /\ beat_at_time(d, t, q) = beat_at_time(c, t, q) + offset
                       /\ beat_at_time(f, t, q) = beat_at_time(c, t, q) + offset

\* A snapshot captured alone on which beat 0 has been requested at an instant
\* before the clock's origin and which did not map it there before: it now
\* reads beat 0 at that instant and beat 3.5 three ticks later.
C20_Witness ==
    /\ snaps[1].state = "live"
    /\ ~snaps[1].peers
    /\ snaps[1].tempo = 140
    /\ beat_at_time(snaps[1], -2, 480) = 0
    /\ beat_at_time(snaps[1], 1, 480) = 420
    /\ snaps[1].shift \notin BeatShifts

\* C21: on every live snapshot captured with peers present, for every beat,
\* instant at and quantum: after request_beat_at_time(beat, at, q) the tempo
\* is as before, the phase at every instant is as before (the beat values
\* moved by a multiple of q), and beat lies at the earliest instant not before
\* at whose phase is the phase of beat: the beat at `at` is at most beat, is
\* less than one quantum short of it, and has the phase it had.
C21_QuantizedRequestKeepsPhase ==
    \A i \in SnapIds :
       (snaps[i].state = "live" /\ snaps[i].peers) =>
          \A beat \in BeatValues, at \in BeatTimes, q \in BeatQuanta :
             LET c == snaps[i]
                 d == Requested(c, beat, at, q)
             IN  /\ tempo(d) = tempo(c)
                 /\ \A t \in BeatTimes :
                       /\ phase_at_time(d, t, q) = phase_at_time(c, t, q)
                       /\ (beat_at_time(d, t, q) - beat_at_time(c, t, q)) % q = 0
                 /\ beat_at_time(d, at, q) <= beat
                 /\ beat - beat_at_time(d, at, q) < q
                 /\ (beat - beat_at_time(d, at, q)) % q
                      = (beat - beat_at_time(c, at, q)) % q

\* A snapshot captured among peers, at 120 BPM, on which beat 0 was requested
\* one tick after the origin when the session stood at beat 1 of a four-beat
\* bar: the timeline moved back one bar, the beat at that instant is -3 and
\* beat 0 falls on the next downbeat.
C21_Witness ==
    /\ snaps[1].state = "live"
    /\ snaps[1].peers
    /\ snaps[1].tempo = 120
    /\ snaps[1].shift = -480
    /\ beat_at_time(snaps[1], 1, 480) = -360
    /\ phase_at_time(snaps[1], 1, 480) = 120

\* C22: on every live snapshot, for every instant t and quantum q, the phase
\* at t lies in [0, q), differs from the beat at t by a whole number of
\* quanta, and is the beat reduced modulo q with floor semantics: for a
\* non-negative beat the plain remainder, for a negative beat off a bar line
\* q minus the remainder of its magnitude.
C22_PhaseInQuantum ==
    \A i \in SnapIds :
       snaps[i].state = "live" =>
          \A t \in BeatTimes, q \in BeatQuanta :
             LET b == beat_at_time(snaps[i], t, q)
                 ph == phase_at_time(snaps[i], t, q)
             IN  /\ 0 <= ph /\ ph < q
                 /\ (b - ph) % q = 0
                 /\ ph = b % q
                 /\ b >= 0 => ph = beat_rem(b, q)
                 /\ (b < 0 /\ ph # 0) => ph = q - ((-b) % q)

\* After beat 0 has been requested one tick before the origin, the snapshot
\* stands one beat before beat 0 another tick earlier: with a quantum of four
\* beats its phase there is 3 beats.
C22_Witness ==
    /\ snaps[1].state = "live"
    /\ snaps[1].shift \notin BeatShifts
    /\ beat_at_time(snaps[1], -1, 480) = 0
    /\ beat_at_time(snaps[1], -2, 480) = -120
    /\ phase_at_time(snaps[1], -2, 480) = 360

\* C23 as stated: on every live snapshot both round trips are exact, from an
\* instant through its beat and from a beat through its instant.
C23_Original ==
    \A i \in SnapIds :
       snaps[i].state = "live" =>
          \A q \in BeatQuanta :
             /\ \A t \in BeatTimes :
                   time_at_beat(snaps[i], beat_at_time(snaps[i], t, q), q) = t
             /\ \A b \in BeatValues :
                   beat_at_time(snaps[i], time_at_beat(snaps[i], b, q), q) = b

\* C23 amended: an instant survives the round trip through its beat exactly;
\* a beat survives the round trip through its instant only to within clock
\* resolution, because an Instant is a whole number of ticks: the beat read
\* back differs from b by less than the beats that pass in one tick.
C23_InverseWithinResolution ==
    \A i \in SnapIds :
       snaps[i].state = "live" =>
          \A q \in BeatQuanta :
             /\ \A t \in BeatTimes :
                   time_at_beat(snaps[i], beat_at_time(snaps[i], t, q), q) = t
             /\ \A b \in BeatValues :
                   LET r == beat_at_time(snaps[i], time_at_beat(snaps[i], b, q), q)
                   IN  /\ r - b < tempo(snaps[i])
                       /\ b - r < tempo(snaps[i])

\* A snapshot whose timeline has been moved by a request and on which a third
\* of a beat falls between two ticks: the instant found for it reads back a
\* different beat, while instant -2 survives its round trip.
C23_Witness ==
    /\ snaps[1].state = "live"
    /\ snaps[1].shift \notin BeatShifts
    /\ beat_at_time(snaps[1], time_at_beat(snaps[1], 40, 480), 480) # 40
    /\ time_at_beat(snaps[1], beat_at_time(snaps[1], -2, 480), 480) = -2

\* C24: on every live snapshot, for every tempo, pivot and quantum: after
\* set_tempo(bpm, pivot) the tempo reads bpm, the beat at the pivot is what it
\* was, and the beat at every other instant, before the pivot as well as
\* after it, is the pivot's beat plus the beats that pass between the pivot
\* and that instant at the new tempo; the transport target is untouched.
C24_TempoPivot ==
    \A i \in SnapIds :
       snaps[i].state = "live" =>
          \A bpm \in Tempos, pivot \in BeatTimes, q \in BeatQuanta :
             LET c == snaps[i]
                 d == set_tempo(c, bpm, pivot)
             IN  /\ tempo(d) = bpm
                 /\ beat_at_time(d, pivot, q) = beat_at_time(c, pivot, q)
                 /\ \A t \in BeatTimes :
                       beat_at_time(d, t, q)
                         = beat_at_time(c, pivot, q)
                             + bpm * (as_micros(t) - as_micros(pivot))
                 /\ transport_state(d) = transport_state(c)
                 /\ transport_state_time(d) = transport_state_time(c)

\* A snapshot brought from 120 to 140 BPM with the pivot three ticks after
\* the origin: the beat at the pivot is still 3, the beat at the origin has
\* moved to -0.5 and the beat two ticks before the origin to -2.83.
C24_Witness ==
    /\ snaps[1].state = "live"
    /\ tempo(snaps[1]) = 140
    /\ beat_at_time(snaps[1], 3, 480) = 360
    /\ beat_at_time(snaps[1], 0, 480) = -60
    /\ beat_at_time(snaps[1], -2, 480) = -340

\* C25: on every live snapshot, for every beat and quantum,
\* request_beat_at_transport_state_time(beat, q) leaves the snapshot exactly
\* as it is when its transport state is Stop, and otherwise leaves it exactly
\* as request_beat_at_time(beat, transport_state_time(), q) would.
C25_RequestAtTransportTime ==
    \A i \in SnapIds :
       snaps[i].state = "live" =>
          \A beat \in BeatValues, q \in BeatQuanta :
             LET c == snaps[i]
                 d == request_beat_at_transport_state_time(c, beat, q)
             IN  IF transport_state(c) = "Stop"
                 THEN d = c
                 ELSE d = request_beat_at_time(c, beat, transport_state_time(c), q)

\* A snapshot captured alone, playing from two ticks before the origin, on
\* which beat 2.5 has been requested at the transport time.
C25_Witness ==
    /\ snaps[1].state = "live"
    /\ ~snaps[1].peers
    /\ transport_state(snaps[1]) = "Play"
    /\ transport_state_time(snaps[1]) = -2
    /\ beat_at_time(snaps[1], -2, 480) = 300

\* C26: every step of start_transport_and_request_beat_at takes the snapshot
\* straight to the state that start_transport_at(at) followed by
\* request_beat_at_transport_state_time(beat, q) would leave, for some beat,
\* at and q: the transport state is Play, the transport time is at, and on a
\* snapshot captured alone the beat at `at` is beat.  No step ends in the
\* state in between unless that is the final state as well.
C26_StartAndRequestIsOneStep ==
    [][\A i \in SnapIds :
         snaps'[i] # snaps[i] =>
            \E beat \in BeatValues, at \in StartTimes, q \in BeatQuanta :
               LET c == snaps[i]
                   mid == start_transport_at(c, at)
                   d == request_beat_at_transport_state_time(mid, beat, q)
               IN  /\ snaps'[i] = d
                   /\ snaps'[i] = start_transport_and_request_beat_at(c, beat, at, q)
                   /\ transport_state(snaps'[i]) = "Play"
                   /\ transport_state_time(snaps'[i]) = at
                   /\ ~c.peers => beat_at_time(snaps'[i], at, q) = beat]_vars

\* A snapshot captured alone, started one tick after the origin with a third
\* of a beat requested there.
C26_Witness ==
    /\ snaps[1].state = "live"
    /\ ~snaps[1].peers
    /\ transport_state(snaps[1]) = "Play"
    /\ transport_state_time(snaps[1]) = 1
    /\ beat_at_time(snaps[1], 1, 480) = 40

\* C27: whenever the exact results stay in the i64 range, in either build:
\* (a + d) - a is d, (a + d) - d is a, and the Duration a - b added to b
\* gives a; Instant ordering is the ordering of the microsecond counts, and
\* a + d is later than a exactly when d is positive; add_micros, add_millis,
\* add_secs and their sub_ forms return what adding (subtracting)
\* Duration::from_micros, from_millis, from_secs of the same count returns.
\* The latest operation applied has returned that value.
C27_TimeArithmetic ==
    LET a  == timeValues.a
        b  == timeValues.b
        d  == timeValues.d
        k  == timeValues.k
        n  == timeValues.n
        ch == timeValues.checks
        r  == timeValues.result
        out == [ok |-> r.ok, val |-> r.val]
        ms == n * MICROS_PER_MILLI
        se == n * MICROS_PER_SEC
    IN  /\ InRange(a + d) =>
              LET s == Instant_add(a, d, ch)
              IN  /\ s.ok
                  /\ Instant_sub_Instant(s.val, a, ch) = Returned(d)
                  /\ Instant_sub(s.val, d, ch) = Returned(a)
                  /\ Instant_lt(a, s.val) <=> d > 0
                  /\ r.op = "Instant_add" => out = s
        /\ InRange(a - b) =>
              LET e == Instant_sub_Instant(a, b, ch)
              IN  /\ e.ok
                  /\ Instant_add(b, e.val, ch) = Returned(a)
                  /\ r.op = "Instant_sub_Instant" => out = e
        /\ Instant_lt(a, b) <=> as_micros(a) < as_micros(b)
        /\ Instant_lt(b, a) <=> as_micros(b) < as_micros(a)
        /\ InRange(a + k) =>
              /\ add_micros(a, k, ch) = Instant_add(a, from_micros(k), ch)
              /\ r.op = "add_micros" => out = Instant_add(a, from_micros(k), ch)
        /\ InRange(a - k) =>
              /\ sub_micros(a, k, ch) = Instant_sub(a, from_micros(k), ch)
              /\ r.op = "sub_micros" => out = Instant_sub(a, from_micros(k), ch)
        /\ InRange(ms) /\ InRange(a + ms) =>
              /\ add_millis(a, n, ch) = Instant_add(a, from_millis(n, ch).val, ch)
              /\ r.op = "add_millis" => out = Returned(a + ms)
        /\ InRange(ms) /\ InRange(a - ms) =>
              /\ sub_millis(a, n, ch) = Instant_sub(a, from_millis(n, ch).val, ch)
              /\ r.op = "sub_millis" => out = Returned(a - ms)
        /\ InRange(se) /\ InRange(a + se) =>
              /\ add_secs(a, n, ch) = Instant_add(a, from_secs(n, ch).val, ch)
              /\ r.op = "add_secs" => out = Returned(a + se)
        /\ InRange(se) /\ InRange(a - se) =>
              /\ sub_secs(a, n, ch) = Instant_sub(a, from_secs(n, ch).val, ch)
              /\ r.op = "sub_secs" => out = Returned(a - se)

\* Two milliseconds added to the Instant 2500 have given 4500.
C27_Witness ==
    /\ timeValues.result.op = "add_millis"
    /\ timeValues.result.ok
    /\ timeValues.a = 2500
    /\ timeValues.n = 2
    /\ timeValues.d = 4000
    /\ timeValues.result.val = 4500


\* The exact integer result of the latest operation, for the operations
\* whose result can leave the i64 range.
C28_Exact ==
    LET v  == timeValues
        op == v.result.op
    IN  CASE op = "Duration_mul" -> v.d * v.k
          [] op = "from_millis" -> v.n * MICROS_PER_MILLI
          [] op = "from_secs" -> v.n * MICROS_PER_SEC
          [] op = "Instant_add" -> v.a + v.d
          [] op = "Instant_sub" -> v.a - v.d
          [] op = "Instant_add_StdDuration" -> v.a + v.std
          [] op = "Instant_sub_StdDuration" -> v.a - v.std
          [] OTHER -> v.result.val

\* The value a saturating operation returns for the exact result x.
C28_Saturated(x) == IF x > I64_MAX THEN I64_MAX ELSE IF x < I64_MIN THEN I64_MIN ELSE x

\* C28: every Instant / Duration operation returns a value for every
\* operand (Duration / 0 and Duration::abs of the minimum included), and
\* Duration * k, from_millis, from_secs and Instant +/- Duration or std
\* Duration return the exact result when it is in the i64 range and the
\* nearest boundary of the range when it is not.
C28_TotalAndSaturating ==
    /\ timeValues.result.ok
    /\ timeValues.result.val = C28_Saturated(C28_Exact)

\* C29: the quantum is an argument of the read and of nothing else: on every
\* live snapshot and instant, the peer with quantum 4 and the peer with
\* quantum 3 read the same beat, both read phase 0 exactly when that beat is
\* a multiple of 12 beats (as at 12 and 24), at 15 beats only the quantum-3
\* peer reads phase 0 and at 16 beats only the quantum-4 peer does; for any
\* two quanta both phases are 0 exactly at the beats that are multiples of
\* both.  Beats are in units of 1/120 beat.
C29_QuantumIsLocal ==
    \A i \in SnapIds : snaps[i].state = "live" =>
       \A t \in QuantumTimes :
          LET c == snaps[i]
              b == beat_at_time(c, t, 480)
              A == phase_at_time(c, t, 480)
              B == phase_at_time(c, t, 360)
          IN  /\ beat_at_time(c, t, 360) = b
              /\ (A = 0 /\ B = 0) <=> b % 1440 = 0
              /\ b \in {1440, 2880} => A = 0 /\ B = 0
              /\ b = 1800 => A = 360 /\ B = 0
              /\ b = 1920 => A = 0 /\ B = 120
              /\ \A q1 \in PeerQuanta \cup BeatQuanta, q2 \in PeerQuanta \cup BeatQuanta :
                    (phase_at_time(c, t, q1) = 0 /\ phase_at_time(c, t, q2) = 0)
                       <=> (b % q1 = 0 /\ b % q2 = 0)

\* The timeline has been moved to beat 15 at the origin: the quantum-3 peer
\* is on its downbeat, the quantum-4 peer three beats into its bar.
C29_Witness ==
    /\ snaps[1].state = "live"
    /\ beat_at_time(snaps[1], 0, 480) = 1800
    /\ phase_at_time(snaps[1], 0, 360) = 0
    /\ phase_at_time(snaps[1], 0, 480) = 360

\* C30: whenever the engine may invoke a slot's trampoline (the trampoline
\* is registered and the engine instance is alive), the context pointer it
\* holds for that slot is the current location of the slot, and no
\* trampoline has dereferenced a context that is not.
C30_ContextIsTheSlot ==
    /\ \A s \in Slots :
          registered[s] /\ engineState = "alive" /\ link = "alive" =>
             context[s] = from_ref(linkAddr, s)
    /\ ~danglingDeref

\* What the Link holds for slot s: the stored callback, the state of its
\* lock and its engine registration.
SlotState(s) == <<slot[s], requested[s], poisoned[s], mutex[s], registered[s]>>

\* C31: every step changes at most one slot, so a set or clear of one slot
\* leaves the callbacks stored in the other two as they were; a fault
\* poisons only the slot whose callback was running; a set or clear panics
\* only when its own slot is poisoned and a notification that has taken the
\* lock of an unpoisoned slot holding a callback invokes it, whatever the
\* state of the other two slots; and on an unpoisoned slot whose lock is
\* free a registration by an idle caller can store, and a notification can
\* take the lock, while other slots are poisoned.
C31_SlotsAreIndependent ==
    /\ [][/\ \A s1 \in Slots, s2 \in Slots :
               (SlotState(s1)' # SlotState(s1) /\ SlotState(s2)' # SlotState(s2))
                  => s1 = s2
          /\ \A s \in Slots :
               (poisoned'[s] /\ ~poisoned[s]) => \E e \in EngineThreads : Invoking(e, s)
          /\ \A t \in AppThreads :
               (pc[t].op = "idle" /\ pc'[t].op \in PanickedOps) => poisoned[pc'[t].slot]
          /\ \A e \in EngineThreads :
               (epc[e].pc = "locked" /\ epc'[e] # epc[e]
                  /\ ~poisoned[epc[e].slot] /\ slot[epc[e].slot] # 0)
                  => epc'[e].pc = "in_cb" /\ epc'[e].cb = slot[epc[e].slot]]_vars
    /\ [](\A s \in Slots :
            (process = "running" /\ link = "alive" /\ ~poisoned[s] /\ mutex[s] = 0) =>
               /\ \A t \in Registrars : pc[t].op = "idle" =>
                     /\ ENABLED (SetCallback(t, s, 1) /\ slot'[s] = 1)
                     /\ ENABLED (ClearCallback(t, s) /\ slot'[s] = 0)
               /\ \A e \in EngineThreads :
                     (registered[s] /\ engineState = "alive" /\ epc[e].pc = "idle") =>
                        ENABLED trampoline_lock(e, s))

\* One slot is poisoned while a registration has stored on a second slot
\* and the callback of a slot other than the poisoned one is running.
C31_Witness ==
    \E s1 \in Slots, s2 \in Slots, t \in AppThreads, e \in EngineThreads :
        /\ s1 # s2
        /\ poisoned[s1]
        /\ pc[t].op = "set_callback"
        /\ pc[t].slot = s2
        /\ slot[s2] # 0
        /\ epc[e].pc = "in_cb"
        /\ epc[e].slot # s1

\* C32: at most one AudioLink is alive in every state; whenever none is
\* alive and no call is running on the Link (as after a release), every
\* thread can bind a new AudioLink, call set_enabled, and capture on the
\* application path while a native session state is to be had; a commit
\* made through an AudioLink replaces the session state of the Link with
\* the snapshot, and an application-path capture that returns afterwards
\* yields exactly the session state of the Link at that moment.
C32_ReleaseReturnsToApplicationPath ==
    /\ [](Cardinality(tokens) <= 1)
    /\ []((tokens = {} /\ link = "alive" /\ process = "running"
            /\ \A u \in AppThreads : pc[u].op = "idle") =>
            \A t \in AppThreads :
               /\ ENABLED bind_audio_thread(t)
               /\ ENABLED set_enabled(t, TRUE)
               /\ (\E i \in SnapIds : FreeSnap(i)) =>
                     ENABLED capture_app_session_state(t, TRUE))
    /\ [][\A t \in AppThreads :
            /\ (pc[t].op = "commit_session_state" /\ pc'[t].op = "idle") =>
                  session' = TimelineOf(snaps[pc[t].snap])
            /\ (pc[t].op = "capture_app_session_state" /\ pc'[t].op = "idle") =>
                  /\ tokens = {}
                  /\ snaps'[pc[t].snap].state = "live"
                  /\ TimelineOf(snaps'[pc[t].snap]) = session]_vars

\* A tempo of 140 was committed through a token, the token was released, an
\* application-path capture has observed the 140, and a token is bound again.
C32_Witness ==
    \E i \in SnapIds, j \in SnapIds :
        /\ snaps[i].path = "AudioLink"
        /\ snaps[i].committed
        /\ snaps[j].path = "Link"
        /\ snaps[j].state = "live"
        /\ snaps[j].tempo = 140
        /\ session.tempo = 140
        /\ tokens # {}

\* C33: every set_*_callback / clear_*_callback call eventually returns to
\* its caller: a call made by an application thread returns, and a call a
\* running callback makes for its own slot returns into that callback.
C33_RegistrationReturns ==
    /\ \A t \in AppThreads : (pc[t].op = "set_callback") ~> (pc[t].op = "idle")
    /\ \A e \in EngineThreads, s \in Slots :
          (epc[e].pc \in {"set_callback", "clear_callback"} /\ epc[e].slot = s) ~>
             (epc[e].pc = "in_cb" /\ epc[e].slot = s)

\* C34: from the fault of a slot's callback on, the engine's notifications
\* for the slot still arrive (the trampoline can be entered while the
\* engine is alive) and each of them ends in the trampoline returning with
\* the lock released and no user callback invoked; the slot stays poisoned
\* and keeps the faulted callback up to and through the drop of the Link.
C34_FaultedSlotDropsNotifications ==
    /\ [](\A s \in Slots : poisoned[s] =>
            /\ slot[s] # 0
            /\ \A e \in EngineThreads :
                  /\ epc[e].slot = s => epc[e].pc = "locked"
                  /\ (process = "running" /\ engineState = "alive" /\ registered[s]
                        /\ mutex[s] = 0 /\ epc[e].pc = "idle") =>
                        ENABLED trampoline_lock(e, s))
    /\ [][/\ \A s \in Slots : poisoned[s] => poisoned'[s] /\ slot'[s] = slot[s]
          /\ \A e \in EngineThreads :
               (epc[e].pc = "locked" /\ poisoned[epc[e].slot] /\ epc'[e] # epc[e]) =>
                  /\ epc'[e] = EIdle
                  /\ mutex'[epc[e].slot] = 0
                  /\ \A x \in EngineThreads : epc'[x].pc = "in_cb" => epc[x] = epc'[x]]_vars

\* A notification has arrived on a slot whose callback faulted earlier; the
\* faulted callback is still the one stored.
C34_Witness ==
    \E e \in EngineThreads :
        /\ epc[e].pc = "locked"
        /\ poisoned[epc[e].slot]
        /\ slot[epc[e].slot] # 0
        /\ process = "running"

\* The operations invoked on the Link itself.
C35_LinkOperations ==
    {"set_enabled", "set_transport_sync_enabled", "query",
     "capture_app_session_state", "commit_app_session_state",
     "set_callback", "clear_callback", "bind_audio_thread"}

\* C35: while an AudioLink is alive the Link is alive and not being
\* dropped, no method of the Link is in progress, no thread can start any
\* operation of the Link (enable / disable, transport sync, queries,
\* capture, commit, callback registration and clearing, another bind) and
\* the drop cannot begin; every step taken in that period is a step of the
\* thread holding the AudioLink or of an engine thread in the trampoline:
\* it leaves the Link, the enabled flag, the stored callbacks and their
\* registrations, and every other application thread as they were.
C35_TokenExcludesEveryLinkOperation ==
    /\ [](tokens # {} =>
            /\ link = "alive"
            /\ \A t \in AppThreads :
                  /\ ~BorrowsLink(t)
                  /\ \A m \in C35_LinkOperations : ~CanStart(t, m)
            /\ ~ENABLED drop_begin)
    /\ [][tokens # {} =>
            /\ link' = link
            /\ enabled' = enabled
            /\ slot' = slot /\ requested' = requested /\ registered' = registered
            /\ \A t \in AppThreads \ tokens :
                  pc'[t] = pc[t] /\ inEngine'[t] = inEngine[t]]_vars

\* A callback is being invoked by the engine while an AudioLink is alive and
\* the other application thread, idle, holds a snapshot and can do nothing
\* with the Link.
C35_Witness ==
    \E t \in AppThreads, u \in AppThreads, e \in EngineThreads :
        /\ t \in tokens
        /\ u # t
        /\ pc[u].op = "idle"
        /\ epc[e].pc = "in_cb"
        /\ enabled
        /\ \E i \in SnapIds : Usable(i)

\* C36: every thread that is running a slot's callback holds that slot's
\* lock, the lock of a slot is held by one thread, and so no two engine
\* threads run the callback of the same slot at the same time; a thread
\* enters a callback only from having taken the lock of its slot.
C36_InvocationsOfASlotAreSerial ==
    /\ [](\A e1 \in EngineThreads, e2 \in EngineThreads :
            (Invoking(e1, epc[e1].slot) /\ Invoking(e2, epc[e1].slot)) =>
               /\ e1 = e2
               /\ mutex[epc[e1].slot] = e1)
    /\ [][\A e \in EngineThreads :
            (epc'[e].pc = "in_cb" /\ epc[e].pc # "in_cb") =>
               /\ epc[e].pc = "locked"
               /\ mutex[epc'[e].slot] = e
               /\ mutex'[epc'[e].slot] = e]_vars

\* Two engine threads are running the callbacks of two different slots at
\* the same time.
C36_Witness ==
    \E e1 \in EngineThreads, e2 \in EngineThreads :
        /\ e1 # e2
        /\ epc[e1].pc = "in_cb"
        /\ epc[e2].pc = "in_cb"
        /\ epc[e1].slot # epc[e2].slot
        /\ mutex[epc[e1].slot] = e1
        /\ mutex[epc[e2].slot] = e2

\* C37: From<bool> for TransportState and From<TransportState> for bool are
\* inverse to each other, true going to Play and false to Stop; and whenever
\* the user's transport-state callback has been called, it was called with
\* Play if the engine reported playing = true and with Stop if it reported
\* false, a call being made only by a notification that invokes the stored
\* callback.
C37_TransportStateConversions ==
    /\ [](/\ \A b \in BOOLEAN : bool_from(TransportState_from(b)) = b
          /\ \A st \in TransportStates : TransportState_from(bool_from(st)) = st
          /\ TransportState_from(TRUE) = "Play" /\ TransportState_from(FALSE) = "Stop"
          /\ bool_from("Play") /\ ~bool_from("Stop")
          /\ received # NothingReceived =>
                /\ received.state \in TransportStates
                /\ received.state = "Play" <=> received.is_playing
                /\ received.state = "Stop" <=> ~received.is_playing)
    /\ [][received' # received =>
            \E e \in EngineThreads :
               /\ epc[e].pc = "locked" /\ epc[e].slot = "start_stop_callback"
               /\ epc'[e].pc = "in_cb" /\ epc'[e].cb = slot["start_stop_callback"]]_vars

\* The engine has reported that the transport stopped and the user callback
\* is running with Stop.
C37_Witness ==
    \E e \in EngineThreads :
        /\ epc[e].pc = "in_cb"
        /\ epc[e].slot = "start_stop_callback"
        /\ received = [is_playing |-> FALSE, state |-> "Stop"]

====
